---- MODULE Spec2Model ----
(***************************************************************************)
(* A model of dvd_order.py of tvdb_api: create_dvd_tree regroups the       *)
(* episodes of a thetvdb.com show tree by their DVD season / DVD episode   *)
(* number and merges the fields of the episodes that share one DVD slot.   *)
(*                                                                         *)
(* Text is modelled as a sequence of atoms.  A release-episode key is a    *)
(* sequence of single characters ("3.1" is <<"3", ".", "1">>), because the *)
(* code slices it; every other text is a sequence of words and separators  *)
(* ("Alpha | Beta" is <<"Alpha", " | ", "Beta">>), so that joining is      *)
(* concatenation and two texts are equal iff their atom sequences are.     *)
(* Python's None is the one-atom text None, which no real text contains.   *)
(*                                                                         *)
(* The module also models tvdb_api.py: the Show, Season and Episode dicts, *)
(* the lookups and searches in them, the ShowContainer, the prompt of      *)
(* ConsoleUI, and the Tvdb instance with its session: login, requests,     *)
(* the cache of responses and the loading of a show.                       *)
(***************************************************************************)
EXTENDS Integers, Sequences, FiniteSets, TLC

VARIABLES showtree, heap, dvdroot, calls, episode_parts, agg, show, lookup,
          tvdb, net, ui

vars == <<showtree, heap, dvdroot, calls, episode_parts, agg, show, lookup,
          tvdb, net, ui>>

(* the state of tvdb_api.py: a Show and the outcome of the last lookup,    *)
(* a Tvdb instance, its session with the server, and the console           *)
apivars == <<show, lookup, tvdb, net, ui>>

----------------------------------------------------------------------------
(* Bounds of the model *)

MaxEpisodes == 2

MaxCalls == 2

(* the entries (episode attributes and show data) put into a Show *)
MaxEntries == 3

(* ShowContainer keeps the keys of the latest 100 assignments *)
Latest == 100

(* the answers typed at one prompt of ConsoleUI *)
MaxPrompts == 2

----------------------------------------------------------------------------
(* Text *)

None == <<"<None>">>

EmptyText == <<>>

T(a) == <<a>>

Digits == <<"0", "1", "2", "3", "4", "5", "6", "7", "8", "9">>

IsDigit(c) == \E i \in 1..10 : Digits[i] = c

DigitVal(c) == (CHOOSE i \in 1..10 : Digits[i] = c) - 1

AllDigits(s) == \A i \in 1..Len(s) : IsDigit(s[i])

RECURSIVE DigitsVal(_)
DigitsVal(s) ==
    IF s = <<>> THEN 0
    ELSE 10 * DigitsVal(SubSeq(s, 1, Len(s) - 1)) + DigitVal(s[Len(s)])

RECURSIVE NatStr(_)
NatStr(n) ==
    IF n < 10 THEN <<Digits[n + 1]>>
    ELSE NatStr(n \div 10) \o <<Digits[(n % 10) + 1]>>

(* str(n) of a Python int *)
str(n) == IF n < 0 THEN <<"-">> \o NatStr(0 - n) ELSE NatStr(n)

(* position of the first "." of s, 0 when there is none *)
DotPos(s) ==
    IF \E i \in 1..Len(s) : s[i] = "."
    THEN CHOOSE i \in 1..Len(s) : s[i] = "." /\ \A j \in 1..(i - 1) : s[j] # "."
    ELSE 0

Unsigned(s) ==
    IF Len(s) > 0 /\ s[1] \in {"-", "+"} THEN SubSeq(s, 2, Len(s)) ELSE s

IntPart(s) ==
    LET u == Unsigned(s) IN
    IF DotPos(u) = 0 THEN u ELSE SubSeq(u, 1, DotPos(u) - 1)

FracPart(s) ==
    LET u == Unsigned(s) IN
    IF DotPos(u) = 0 THEN <<>> ELSE SubSeq(u, DotPos(u) + 1, Len(u))

(* float(s) succeeds: an optional sign, digits, optionally a "." and       *)
(* digits, with at least one digit; anything else built from the model's   *)
(* characters (a letter, a second ".", the empty text) is a ValueError     *)
FloatParses(s) ==
    /\ s # None
    /\ AllDigits(IntPart(s))
    /\ AllDigits(FracPart(s))
    /\ Len(IntPart(s)) + Len(FracPart(s)) > 0

(* int(float(s)): truncation toward zero *)
IntOfFloat(s) ==
    LET v == DigitsVal(IntPart(s)) IN
    IF Len(s) > 0 /\ s[1] = "-" THEN 0 - v ELSE v

(* s[:-2] *)
DropLast2(s) == IF Len(s) <= 2 THEN <<>> ELSE SubSeq(s, 1, Len(s) - 2)

----------------------------------------------------------------------------
(* The element tree.  An element with text-only children (an Episode) is   *)
(* the sequence of its children, each a record [tag, text]; text is None   *)
(* for an empty element.  showtree.episodes is the list of the Episode     *)
(* elements in document order; a reference to an Episode element is its    *)
(* position in that list.                                                  *)

El(tag, text) == [tag |-> tag, text |-> text]

(* item.find(tag): the position of the first child with that tag, 0 for    *)
(* Python's None                                                           *)
find(item, tag) ==
    IF \E i \in 1..Len(item) : item[i].tag = tag
    THEN CHOOSE i \in 1..Len(item) :
            item[i].tag = tag /\ \A j \in 1..(i - 1) : item[j].tag # tag
    ELSE 0

Has(item, tag) == find(item, tag) # 0

(* item.find(tag).text, defined when Has(item, tag) *)
TextOf(item, tag) == item[find(item, tag)].text

(* [child.tag for child in item.getchildren()]; getchildren exists in the  *)
(* Python versions setup.py declares (2.6 to 3.6)                          *)
ChildTags(item) == [i \in 1..Len(item) |-> item[i].tag]

EpNode(seg) == showtree.episodes[seg.EpNode]

(* The outcome of a call: exc is "" when it returned data, else the name   *)
(* of the exception that left it                                           *)
Ok(data) == [exc |-> "", data |-> data]

Raised(e) == [exc |-> e, data |-> EmptyText]

(* get_element_texts(showtree, 'Episode/' + tag): the set of the non-None  *)
(* texts of all the tag children of all episodes                           *)
get_element_texts(tag) ==
    LET eps == showtree.episodes
        texts == UNION { { eps[i][j].text :
                             j \in { k \in 1..Len(eps[i]) : eps[i][k].tag = tag } } :
                         i \in 1..Len(eps) }
    IN  texts \ {None}

----------------------------------------------------------------------------
(* The aggregation functions.  episode_parts is a list of Segment dicts    *)
(* [name, overview, EpNode].                                               *)

RECURSIVE Join(_, _)
(* sep.join(texts) *)
Join(sep, texts) ==
    IF texts = <<>> THEN EmptyText
    ELSE IF Len(texts) = 1 THEN texts[1]
    ELSE texts[1] \o sep \o Join(sep, Tail(texts))

(* the titles joined in the order of the fractional suffixes of the keys *)
create_episode_title_BySuffix(parts) ==
    LET suffix(seg) ==
            LET key == TextOf(EpNode(seg), "DVD_episodenumber")
            IN  DigitVal(key[Len(key)])
        sorted == SortSeq(parts, LAMBDA a, b : suffix(a) < suffix(b))
    IN  Join(T(" | "), [i \in 1..Len(sorted) |-> sorted[i].name])

create_episode_title(parts) ==
    Join(T(" | "), [i \in 1..Len(parts) |-> parts[i].name])

(* the Segment dicts with a None overview left as it is *)
OverviewSegments_Keep(parts) == parts

(* the Segment dicts as create_episode_overview leaves them: with several  *)
(* segments, a None overview is replaced by '' in the dict                 *)
OverviewSegments(parts) ==
    IF Len(parts) = 1 THEN parts
    ELSE [i \in 1..Len(parts) |->
            IF parts[i].overview = None
            THEN [parts[i] EXCEPT !.overview = EmptyText]
            ELSE parts[i]]

(* the synthesis of several segments applied to a single segment too *)
create_episode_overview_Always(parts) ==
    LET segs == [i \in 1..Len(parts) |->
                    IF parts[i].overview = None
                    THEN [parts[i] EXCEPT !.overview = EmptyText]
                    ELSE parts[i]]
    IN  Join(T("\n"), [i \in 1..Len(segs) |->
                           segs[i].name \o T(":\n") \o segs[i].overview])

create_episode_overview(parts) ==
    IF Len(parts) = 1 THEN parts[1].overview
    ELSE LET segs == OverviewSegments(parts) IN
         Join(T("\n"), [i \in 1..Len(segs) |->
                            segs[i].name \o T(":\n") \o segs[i].overview])

(* every segment's element has a tag child *)
AllHave(parts, tag) == \A i \in 1..Len(parts) : Has(EpNode(parts[i]), tag)

(* [seg['EpNode'].find(tag).text for seg in episode_parts], defined when   *)
(* AllHave(parts, tag)                                                     *)
FieldTexts(parts, tag) == [i \in 1..Len(parts) |-> TextOf(EpNode(parts[i]), tag)]

RECURSIVE SplitAt(_, _)
(* text.split(sep): the pieces between the occurrences of the atom sep *)
SplitAt(text, sep) ==
    IF \E i \in 1..Len(text) : text[i] = sep
    THEN LET p == CHOOSE i \in 1..Len(text) :
                     text[i] = sep /\ \A j \in 1..(i - 1) : text[j] # sep
         IN  <<SubSeq(text, 1, p - 1)>> \o SplitAt(SubSeq(text, p + 1, Len(text)), sep)
    ELSE <<text>>

(* The atoms that occur in list fields, in ascending order of Python's     *)
(* string comparison (upper case sorts before lower case)                  *)
SortedAtoms == <<"Ghost", "Jones", "None", "Smith">>

AtomRank(a) ==
    IF \E i \in 1..Len(SortedAtoms) : SortedAtoms[i] = a
    THEN CHOOSE i \in 1..Len(SortedAtoms) : SortedAtoms[i] = a
    ELSE Len(SortedAtoms) + 1

RECURSIVE TextLess(_, _)
(* s < t for two strings *)
TextLess(s, t) ==
    IF t = <<>> THEN FALSE
    ELSE IF s = <<>> THEN TRUE
    ELSE IF AtomRank(s[1]) # AtomRank(t[1]) THEN AtomRank(s[1]) < AtomRank(t[1])
    ELSE TextLess(Tail(s), Tail(t))

RECURSIVE SetToSortedSeq(_)
(* sorted(set) of texts *)
SetToSortedSeq(S) ==
    IF S = {} THEN <<>>
    ELSE LET m == CHOOSE x \in S : \A y \in S \ {x} : TextLess(x, y)
         IN  <<m>> \o SetToSortedSeq(S \ {m})

(* the list with only '' in the garbage: the item 'None' stays *)
compile_piped_list_KeepNone(parts, tag) ==
    IF ~AllHave(parts, tag) THEN EmptyText
    ELSE LET listy == FieldTexts(parts, tag) IN
         IF \E i \in 1..Len(listy) : listy[i] = None
         THEN EmptyText
         ELSE LET listylist == [i \in 1..Len(listy) |-> SplitAt(listy[i], "|")]
                  items == UNION { { listylist[i][j] : j \in 1..Len(listylist[i]) } :
                                   i \in 1..Len(listylist) }
                  flatlist == SetToSortedSeq(items \ {EmptyText})
                  data == T("|") \o Join(T("|"), flatlist) \o T("|")
              IN  IF data = <<"|", "|">> THEN EmptyText ELSE data

(* seq without the first occurrence of x, if there is one *)
DropFirst(seq, x) ==
    IF \E i \in 1..Len(seq) : seq[i] = x
    THEN LET p == CHOOSE i \in 1..Len(seq) :
                     seq[i] = x /\ \A j \in 1..(i - 1) : seq[j] # x
         IN  SubSeq(seq, 1, p - 1) \o SubSeq(seq, p + 1, Len(seq))
    ELSE seq

RECURSIVE Flatten(_)
Flatten(lists) == IF lists = <<>> THEN <<>> ELSE lists[1] \o Flatten(Tail(lists))

(* the flattened list neither made a set nor sorted: remove() then drops   *)
(* the first '' and the first 'None' only                                  *)
compile_piped_list_NoSet(parts, tag) ==
    IF ~AllHave(parts, tag) THEN EmptyText
    ELSE LET listy == FieldTexts(parts, tag) IN
         IF \E i \in 1..Len(listy) : listy[i] = None
         THEN EmptyText
         ELSE LET flat == Flatten([i \in 1..Len(listy) |-> SplitAt(listy[i], "|")])
                  flatlist == DropFirst(DropFirst(flat, EmptyText), T("None"))
                  data == T("|") \o Join(T("|"), flatlist) \o T("|")
              IN  IF data = <<"|", "|">> THEN EmptyText ELSE data

compile_piped_list(parts, tag) ==
    IF ~AllHave(parts, tag) THEN EmptyText             \* AttributeError, caught
    ELSE LET listy == FieldTexts(parts, tag) IN
         IF \E i \in 1..Len(listy) : listy[i] = None
         THEN EmptyText                                \* AttributeError, caught
         ELSE LET listylist == [i \in 1..Len(listy) |-> SplitAt(listy[i], "|")]
                  items == UNION { { listylist[i][j] : j \in 1..Len(listylist[i]) } :
                                   i \in 1..Len(listylist) }
                  flatlist == SetToSortedSeq(items \ {EmptyText, T("None")})
                  data == T("|") \o Join(T("|"), flatlist) \o T("|")
              IN  IF data = <<"|", "|">> THEN EmptyText ELSE data

(* A Python set cannot be subscripted: entries[0] raises TypeError *)
SetSubscript(entries) == Raised("TypeError")

retrieve_single_entry(parts, tag) ==
    IF ~AllHave(parts, tag) THEN EmptyText             \* AttributeError, caught
    ELSE LET listy == FieldTexts(parts, tag)
             entries == { listy[i] : i \in 1..Len(listy) } \ {None}
             first == SetSubscript(entries)
         IN  IF first.exc # "" THEN EmptyText ELSE first.data

(* get_boolean_flag has no try: a missing element leaves it as an          *)
(* AttributeError                                                          *)
get_boolean_flag(parts, tag) ==
    IF ~AllHave(parts, tag) THEN Raised("AttributeError")
    ELSE LET listy == FieldTexts(parts, tag)
             bools == { listy[i] : i \in 1..Len(listy) }
         IN  IF T("1") \in bools THEN Ok(T("1")) ELSE Ok(T("0"))

(* float(text) in thousandths, for a text that FloatParses with at most    *)
(* three fractional digits                                                 *)
Milli(text) ==
    LET f == FracPart(text)
        padded == f \o SubSeq(<<"0", "0", "0">>, 1, 3 - Len(f))
        v == 1000 * DigitsVal(IntPart(text)) + DigitsVal(padded)
    IN  IF Len(text) > 0 /\ text[1] = "-" THEN 0 - v ELSE v

RECURSIVE SumSeq(_)
SumSeq(values) == IF values = <<>> THEN 0 ELSE values[1] + SumSeq(Tail(values))

RECURSIVE StripZeros(_)
(* the fractional digits without trailing zeros, one digit at least *)
StripZeros(ds) ==
    IF Len(ds) > 1 /\ ds[Len(ds)] = "0" THEN StripZeros(SubSeq(ds, 1, Len(ds) - 1))
    ELSE ds

(* str(total / n) for floats, total in thousandths; exact says that the    *)
(* sum was computed without rounding.  The quotient is printed digit for   *)
(* digit when it is a multiple of 1/8 (the double holds it exactly); any   *)
(* other quotient is a rounded double, whose digits the model does not     *)
(* compute: it is kept as the symbolic text of the division                *)
FloatStr(total, n, exact) ==
    IF exact /\ total >= 0 /\ total % n = 0 /\ (total \div n) % 125 = 0
    THEN LET m == total \div n
             frac == <<Digits[((m % 1000) \div 100) + 1],
                       Digits[((m % 100) \div 10) + 1],
                       Digits[(m % 10) + 1]>>
         IN  NatStr(m \div 1000) \o T(".") \o StripZeros(frac)
    ELSE T("<double ") \o str(total) \o T("/") \o str(1000 * n) \o T(">")

(* the mean of the members whose text parses, the others skipped *)
get_average_value_SkipBad(parts, tag) ==
    LET texts == [i \in 1..Len(parts) |->
                     IF Has(EpNode(parts[i]), tag)
                     THEN TextOf(EpNode(parts[i]), tag) ELSE None]
        good == SelectSeq(texts, LAMBDA t : FloatParses(t))
        values == [k \in 1..Len(good) |-> Milli(good[k])]
    IN  IF good = <<>> THEN T("0")
        ELSE FloatStr(SumSeq(values), Len(values),
                      \A i \in 1..Len(values) : values[i] % 125 = 0)

get_average_value(parts, tag) ==
    IF ~AllHave(parts, tag) THEN T("0")                \* AttributeError, caught
    ELSE LET listy == FieldTexts(parts, tag) IN
         IF \E i \in 1..Len(listy) : ~FloatParses(listy[i])
         THEN T("0")                                   \* TypeError or ValueError, caught
         ELSE LET values == [i \in 1..Len(listy) |-> Milli(listy[i])]
              IN  FloatStr(SumSeq(values), Len(values),
                           \A i \in 1..Len(values) : values[i] % 125 = 0)

----------------------------------------------------------------------------
(* create_dvd_tree *)

BaseTags == <<"EpisodeName", "Overview", "SeasonNumber", "EpisodeNumber">>

(* the three loops over named tags of lines 131-147, in order *)
NamedTags ==
    <<[tag |-> "Director", kind |-> "piped"],
      [tag |-> "Writer", kind |-> "piped"],
      [tag |-> "GuestStars", kind |-> "piped"],
      [tag |-> "Rating", kind |-> "average"],
      [tag |-> "EpImgFlag", kind |-> "flag"]>>

InSeq(x, seq) == \E i \in 1..Len(seq) : seq[i] = x

(* tags.remove(tag), defined when InSeq(tag, tags): drops the first one *)
Remove(tags, tag) ==
    LET p == CHOOSE i \in 1..Len(tags) :
                tags[i] = tag /\ \A j \in 1..(i - 1) : tags[j] # tag
    IN  SubSeq(tags, 1, p - 1) \o SubSeq(tags, p + 1, Len(tags))

RECURSIVE RemoveBase(_, _)
(* lines 127-129: ValueError when the first member lacks one of the tags *)
RemoveBase(tags, todo) ==
    IF todo = <<>> THEN Ok(tags)
    ELSE IF ~InSeq(todo[1], tags) THEN Raised("ValueError")
    ELSE RemoveBase(Remove(tags, todo[1]), Tail(todo))

(* the segment dict of line 105 for the episode at position i *)
Segment(i) ==
    [name |-> TextOf(showtree.episodes[i], "EpisodeName"),
     overview |-> TextOf(showtree.episodes[i], "Overview"),
     EpNode |-> i]

(* the key matched by the integer part float() gives it *)
SuffixMatch_ByIntegerPart(key, episodenum) ==
    FloatParses(key) /\ IntOfFloat(key) = episodenum

(* line 101-104: the key of the item, None read as '', without its last    *)
(* two characters, is the decimal text of episodenum                       *)
SuffixMatch(key, episodenum) ==
    LET segmentnum == IF key = None THEN EmptyText ELSE key
    IN  DropLast2(segmentnum) = str(episodenum)

(* the item passes the tests of lines 100 and 104 *)
Selected(item, seasonnum, episodenum) ==
    /\ Has(item, "DVD_season")
    /\ TextOf(item, "DVD_season") = seasonnum
    /\ Has(item, "DVD_episodenumber")
    /\ SuffixMatch(TextOf(item, "DVD_episodenumber"), episodenum)

(* an element the scan dereferences is missing: find() gives None and      *)
(* .text raises AttributeError                                             *)
ScanRaises(item, seasonnum, episodenum) ==
    \/ ~Has(item, "DVD_season")
    \/ /\ TextOf(item, "DVD_season") = seasonnum
       /\ \/ ~Has(item, "DVD_episodenumber")
          \/ /\ Selected(item, seasonnum, episodenum)
             /\ (~Has(item, "EpisodeName") \/ ~Has(item, "Overview"))

RECURSIVE PartsFrom_AnyName(_, _, _)
(* the segments of all selected items, without the test of line 110 *)
PartsFrom_AnyName(i, seasonnum, episodenum) ==
    IF i > Len(showtree.episodes) THEN <<>>
    ELSE LET item == showtree.episodes[i]
             rest == PartsFrom_AnyName(i + 1, seasonnum, episodenum)
         IN  IF Selected(item, seasonnum, episodenum)
             THEN <<[name |-> TextOf(item, "EpisodeName"),
                     overview |-> TextOf(item, "Overview"),
                     EpNode |-> i]>> \o rest
             ELSE rest

RECURSIVE PartsFrom(_, _, _)
(* lines 98-111 from item i on: the segments of the selected items that    *)
(* have a name, in document order                                          *)
PartsFrom(i, seasonnum, episodenum) ==
    IF i > Len(showtree.episodes) THEN <<>>
    ELSE LET item == showtree.episodes[i]
             rest == PartsFrom(i + 1, seasonnum, episodenum)
         IN  IF Selected(item, seasonnum, episodenum) /\ Segment(i).name # None
             THEN <<Segment(i)>> \o rest
             ELSE rest

ScanParts(seasonnum, episodenum) ==
    IF \E i \in 1..Len(showtree.episodes) :
          ScanRaises(showtree.episodes[i], seasonnum, episodenum)
    THEN Raised("AttributeError")
    ELSE Ok(PartsFrom(1, seasonnum, episodenum))

(* the merged value of one named tag, by its kind *)
Aggregate(parts, tag, kind) ==
    IF kind = "piped" THEN Ok(compile_piped_list(parts, tag))
    ELSE IF kind = "average" THEN Ok(get_average_value(parts, tag))
    ELSE get_boolean_flag(parts, tag)

RECURSIVE FleshNamed(_, _, _, _)
(* one round of the loops of lines 131-147: value is the merged value of   *)
(* the tag todo[1]                                                         *)
FleshOne(parts, episode, tags, todo, value) ==
    IF value.exc # "" THEN Raised(value.exc)
    ELSE IF ~InSeq(todo[1].tag, tags) THEN Raised("ValueError")
    ELSE FleshNamed(parts, Append(episode, El(todo[1].tag, value.data)),
                    Remove(tags, todo[1].tag), Tail(todo))

(* lines 131-147: for each named tag, append its element with the merged   *)
(* value, then tags.remove(tag), a ValueError when the first member has no *)
(* such child.  Gives the episode and the tags that are left.              *)
FleshNamed(parts, episode, tags, todo) ==
    IF todo = <<>> THEN Ok([episode |-> episode, tags |-> tags])
    ELSE FleshOne(parts, episode, tags, todo,
                  Aggregate(parts, todo[1].tag, todo[1].kind))

(* lines 149-152: named is the outcome of the loops over the named tags;   *)
(* every tag that is left gets a single entry                              *)
FleshRest(parts, named) ==
    IF named.exc # "" THEN Raised(named.exc)
    ELSE Ok(named.data.episode \o
            [i \in 1..Len(named.data.tags) |->
               El(named.data.tags[i],
                  retrieve_single_entry(parts, named.data.tags[i]))])

(* lines 124-152: basic is the episode with its four basic elements, tags  *)
(* the outcome of lines 125-129                                            *)
Flesh(parts, basic, tags) ==
    IF tags.exc # "" THEN Raised(tags.exc)
    ELSE FleshRest(parts, FleshNamed(parts, basic, tags.data, NamedTags))

(* lines 113-152: the merged Episode element of a non-empty group *)
MergedEpisode(parts, seasonnum, episodenum) ==
    Flesh(parts,
          <<El("EpisodeName", create_episode_title(parts)),
            El("SeasonNumber", seasonnum),
            El("EpisodeNumber", str(episodenum)),
            El("Overview", create_episode_overview(parts))>>,
          RemoveBase(ChildTags(EpNode(parts[1])), BaseTags))

RECURSIVE SortedInts(_)
SortedInts(S) ==
    IF S = {} THEN <<>>
    ELSE LET m == CHOOSE x \in S : \A y \in S : x <= y
         IN  <<m>> \o SortedInts(S \ {m})

(* lines 92-95, defined when every key parses *)
episode_nums ==
    SortedInts({ IntOfFloat(k) : k \in get_element_texts("DVD_episodenumber") })

(* the segments whose dict create_episode_overview assigns to (line 28) *)
OverviewWrites(parts) ==
    IF Len(parts) = 1 THEN <<>>
    ELSE SelectSeq(parts, LAMBDA seg : seg.overview = None)

Outcome(exc, episodes, writes) == [exc |-> exc, data |-> episodes, writes |-> writes]

RECURSIVE SeasonFrom(_, _, _, _, _)
(* lines 112-152 for candidate j: merged is the outcome of the merge of    *)
(* the group, written the segment dicts assigned to so far                 *)
AfterMerge(seasonnum, nums, j, acc, written, merged) ==
    IF merged.exc # "" THEN Outcome(merged.exc, <<>>, written)
    ELSE SeasonFrom(seasonnum, nums, j + 1, Append(acc, merged.data), written)

(* lines 112-152 for candidate j: scan is the outcome of the scan *)
AfterScan(seasonnum, nums, j, acc, writes, scan) ==
    IF scan.exc # "" THEN Outcome(scan.exc, <<>>, writes)
    ELSE IF scan.data = <<>> THEN SeasonFrom(seasonnum, nums, j + 1, acc, writes)
    ELSE AfterMerge(seasonnum, nums, j, acc, writes \o OverviewWrites(scan.data),
                    MergedEpisode(scan.data, seasonnum, nums[j]))

(* lines 97-152 for one season, from candidate j of nums on; acc is the    *)
(* list of the Episode elements appended to dvdroot so far, writes the     *)
(* list of the segment dicts assigned to so far                            *)
SeasonFrom(seasonnum, nums, j, acc, writes) ==
    IF j > Len(nums) THEN Outcome("", acc, writes)
    ELSE AfterScan(seasonnum, nums, j, acc, writes, ScanParts(seasonnum, nums[j]))

RECURSIVE BuildFrom(_, _, _, _)
(* line 91 after season i: season is the outcome of its loop *)
AfterSeason(order, i, season) ==
    IF season.exc # "" THEN season
    ELSE BuildFrom(order, i + 1, season.data, season.writes)

(* lines 91-152 from season i of the iteration order on *)
BuildFrom(order, i, acc, writes) ==
    IF i > Len(order) THEN Outcome("", acc, writes)
    ELSE IF \E k \in get_element_texts("DVD_episodenumber") : ~FloatParses(k)
    THEN Outcome("ValueError", <<>>, writes)           \* float(epnum), line 93
    ELSE AfterSeason(order, i, SeasonFrom(order[i], episode_nums, 1, acc, writes))

(* The Episode elements create_dvd_tree appends to dvdroot, or the         *)
(* exception that leaves it, when the loop of line 91 visits the season    *)
(* labels in the given order                                               *)
create_dvd_tree(order) == BuildFrom(order, 1, <<>>, <<>>)

(* The orders in which the loop of line 91 may visit a set of labels: it   *)
(* iterates a Python set of str, whose order follows the hash values of    *)
(* the labels (randomised per interpreter run since Python 3.3), not the   *)
(* order of insertion                                                      *)
IterationOrders(S) ==
    { o \in [1..Cardinality(S) -> S] : \A x \in S : \E i \in DOMAIN o : o[i] = x }

----------------------------------------------------------------------------
(* The Series element and its descendants live in a heap of nodes          *)
(* [text, kids], kids the list of the heap positions of the children; a    *)
(* reference to a node is its position.                                    *)

RECURSIVE Value(_, _)
(* the tree below a node, as a value *)
Value(h, id) ==
    [text |-> h[id].text,
     kids |-> [i \in 1..Len(h[id].kids) |-> Value(h, h[id].kids[i])]]

RECURSIVE Reach(_, _)
(* the nodes of the tree below a node *)
Reach(h, id) ==
    {id} \cup UNION { Reach(h, h[id].kids[i]) : i \in 1..Len(h[id].kids) }

(* copy.copy(node): a fresh node that shares the children of the original *)
shallow_copy(h, id) == [heap |-> Append(h, h[id]), id |-> Len(h) + 1]

(* deepcopy(node): the heap with a fresh copy of the node and of all its   *)
(* descendants, and the reference to the copy                              *)
deepcopy(h, id) ==
    LET old == SortedInts(Reach(h, id))
        fresh(n) == Len(h) + CHOOSE k \in 1..Len(old) : old[k] = n
        copies == [k \in 1..Len(old) |->
                     [text |-> h[old[k]].text,
                      kids |-> [j \in 1..Len(h[old[k]].kids) |->
                                   fresh(h[old[k]].kids[j])]]]
    IN  [heap |-> h \o copies, id |-> fresh(id)]

(* the assignment lands in the Overview child of the segment's element *)
SegmentAssign_Through(episodes, seg) ==
    [episodes EXCEPT ![seg.EpNode] =
        [k \in 1..Len(@) |-> IF k = find(@, "Overview")
                             THEN El("Overview", EmptyText) ELSE @[k]]]

(* What the assignment seg['overview'] = '' does to the Episode elements:  *)
(* nothing, the dict entry was bound to the text of the element and is     *)
(* rebound, the element keeps its text                                     *)
SegmentAssign(episodes, seg) == episodes

RECURSIVE AfterWrites(_, _)
AfterWrites(episodes, writes) ==
    IF writes = <<>> THEN episodes
    ELSE AfterWrites(SegmentAssign(episodes, writes[1]), Tail(writes))

NoTree == [series |-> 0, episodes |-> <<>>]

(* The nodes that stay referenced when dvdroot is rebound: those of the    *)
(* source, which the model keeps at the front of the heap; the tree of an  *)
(* earlier result is garbage                                               *)
Live(h) == SubSeq(h, 1, showtree.series)

(* the source document as a value *)
SourceValue ==
    [series |-> Value(heap, showtree.series), episodes |-> showtree.episodes]

----------------------------------------------------------------------------
(* The source documents the model draws from *)

Key(a, b, c) == <<a, b, c>>

(* the children of an Episode element after the four the grouping reads *)
FullFields ==
    <<El("SeasonNumber", T("1")), El("EpisodeNumber", T("1")),
      El("Director", <<"Smith", "|", "Jones">>), El("Writer", T("Jones")),
      El("GuestStars", None), El("Rating", Key("8", ".", "0")),
      El("EpImgFlag", T("0")), El("ProductionCode", T("P1"))>>

(* the same for an episode without a name: its values occur nowhere else *)
GhostFields ==
    <<El("SeasonNumber", T("1")), El("EpisodeNumber", T("1")),
      El("Director", T("Ghost")), El("Writer", T("Ghost")),
      El("GuestStars", T("Ghost")), El("Rating", Key("9", ".", "0")),
      El("EpImgFlag", T("1")), El("ProductionCode", T("P0"))>>

Without(fields, tag) == SelectSeq(fields, LAMBDA c : c.tag # tag)

Ep(season, key, name, overview, fields) ==
    <<El("DVD_season", season), El("DVD_episodenumber", key),
      El("EpisodeName", name), El("Overview", overview)>> \o fields

Alpha(season, key) == Ep(season, key, T("Alpha"), T("first"), FullFields)

(* an episode without an overview *)
Beta(season, key) == Ep(season, key, T("Beta"), None, FullFields)

(* an episode without a name *)
Unnamed(season, key) == Ep(season, key, None, T("orphan"), GhostFields)

Episodes ==
    { Alpha(T("1"), Key("1", ".", "0")), Beta(T("1"), Key("1", ".", "0")),
      Unnamed(T("1"), Key("1", ".", "0")),
      Alpha(T("1"), Key("1", ".", "1")), Beta(T("1"), Key("1", ".", "1")),
      Alpha(T("1"), Key("2", ".", "0")),
      Beta(T("1"), <<"1", "0", ".", "0">>),
      Alpha(T("1"), Key("1", "0", "0")),
      Alpha(T("1"), T("x")),
      Alpha(T("1"), <<"3", ".", "1", "0">>),
      Beta(T("1"), None),
      Alpha(T("2"), Key("1", ".", "0")), Beta(T("2"), Key("1", ".", "1")),
      Beta(T("2"), Key("2", ".", "0")), Unnamed(T("2"), Key("2", ".", "1")),
      Alpha(None, Key("1", ".", "0")),
      \* episodes that lack an element the merge looks for
      Ep(T("1"), Key("1", ".", "1"), T("Beta"), None, Without(FullFields, "EpImgFlag")),
      Ep(T("1"), Key("1", ".", "0"), T("Alpha"), T("first"), Without(FullFields, "Director")),
      Ep(T("1"), Key("1", ".", "0"), T("Alpha"), T("first"), <<>>) }

(* The end-to-end scenario of the specification: four episodes of season   *)
(* "1"; keys gives the four release-episode keys                           *)
Scenario(keys, fields) ==
    <<Ep(T("1"), keys[1], T("Alpha"), T("first"), fields),
      Ep(T("1"), keys[2], T("Beta"), T("second"), fields),
      Ep(T("1"), keys[3], T("Gamma1"), T("g1"), fields),
      Ep(T("1"), keys[4], T("Gamma2"), T("g2"), fields)>>

PlainKeys == <<<<"0", "1">>, <<"0", "2">>, <<"0", "3", ".", "1">>, <<"0", "3", ".", "2">>>>

DottedKeys == <<Key("1", ".", "0"), Key("2", ".", "0"), Key("3", ".", "1"), Key("3", ".", "2")>>

ScenarioDocs ==
    { Scenario(keys, fields) : keys \in {PlainKeys, DottedKeys},
                               fields \in {<<>>, FullFields} }

Documents ==
    UNION { [1..n -> Episodes] : n \in 0..MaxEpisodes } \cup ScenarioDocs

SeriesTexts == {T("Firefly"), T("Serenity")}

(* the Series element (node 2) with one child, its SeriesName (node 1) *)
SourceHeap(name) == <<[text |-> name, kids |-> <<>>], [text |-> None, kids |-> <<1>>]>>

----------------------------------------------------------------------------
(* tvdb_api.py: Show, Season and Episode.  Each is a dict, modelled as a   *)
(* function on the set of its keys; a Show has the dict data besides.  A   *)
(* key is an int or a str: its text is the decimal text of the int or the  *)
(* characters of the str, and 1 and "1" are different keys.                *)

IntKey(n) == [isint |-> TRUE, text |-> NatStr(n)]

StrKey(text) == [isint |-> FALSE, text |-> text]

(* key.isdigit() of a str: not empty, every character a digit *)
isdigit(key) == Len(key.text) > 0 /\ \A i \in 1..Len(key.text) : IsDigit(key.text[i])

EmptyDict == [k \in {} |-> <<>>]

(* d[key] = value *)
SetKey(d, key, value) ==
    [k \in DOMAIN d \cup {key} |-> IF k = key THEN value ELSE d[k]]

(* Show(): no season, no data *)
NewShow == [seasons |-> EmptyDict, data |-> EmptyDict]

(* what a lookup gives: a Season, an Episode or a stored value *)
Object(kind, dict) == [kind |-> kind, dict |-> dict, text |-> EmptyText]

Stored(value) == [kind |-> "value", dict |-> EmptyDict, text |-> value]

Found(object) == [exc |-> "", data |-> object]

NotFound(e) == [exc |-> e, data |-> Stored(EmptyText)]

(* dict.__getitem__(self, key) of a plain key lookup *)
Show_getitem_Plain(self, key) ==
    IF key \in DOMAIN self.seasons THEN Found(Object("Season", self.seasons[key]))
    ELSE NotFound("KeyError")

(* Show.__getitem__ *)
Show_getitem(self, key) ==
    IF key \in DOMAIN self.seasons THEN Found(Object("Season", self.seasons[key]))
    ELSE IF key \in DOMAIN self.data THEN Found(Stored(self.data[key]))
    ELSE IF key.isint \/ isdigit(key) THEN NotFound("TvdbSeasonNotFound")
    ELSE NotFound("TvdbAttributeNotFound")

(* Season.__getitem__ *)
Season_getitem(self, episode_number) ==
    IF episode_number \notin DOMAIN self THEN NotFound("TvdbEpisodeNotFound")
    ELSE Found(Object("Episode", self[episode_number]))

(* Episode.__getitem__ *)
Episode_getitem(self, key) ==
    IF key \in DOMAIN self THEN Found(Stored(self[key]))
    ELSE NotFound("TvdbAttributeNotFound")                \* KeyError, caught

(* Tvdb._set_item for the Show of one series id *)
set_item(self, seas, ep, attrib, value) ==
    LET season == IF seas \in DOMAIN self.seasons THEN self.seasons[seas] ELSE EmptyDict
        episode == IF ep \in DOMAIN season THEN season[ep] ELSE EmptyDict
    IN  [self EXCEPT !.seasons =
            SetKey(self.seasons, seas, SetKey(season, ep, SetKey(episode, attrib, value)))]

(* Tvdb._set_show_data for the Show of one series id *)
set_show_data(self, key, value) == [self EXCEPT !.data = SetKey(self.data, key, value)]

(* The keys and values of the model.  The season and episode numbers come  *)
(* from the JSON of the server, the data keys and attribute names are its  *)
(* tags; "1" is a season number sent as a string and a tag                 *)
SeasonNumbers == {IntKey(1), StrKey(T("1"))}

EpisodeNumbers == {IntKey(6)}

AttributeNames == {StrKey(T("episodeName")), StrKey(T("id"))}

DataTags == {StrKey(T("seriesName")), StrKey(T("1"))}

Values == {T("Scrubs"), T("My First Day")}

LookupKeys ==
    SeasonNumbers \cup AttributeNames \cup DataTags
        \cup {IntKey(42), StrKey(<<"4", "2">>), StrKey(<<"4", "x">>), StrKey(EmptyText),
              IntKey(6), IntKey(30), StrKey(T("afakeattributething"))}

(* the number of attributes of all episodes and of show data entries *)
Entries(self) ==
    Cardinality(DOMAIN self.data)
    + Cardinality({ p \in SeasonNumbers \X EpisodeNumbers \X AttributeNames :
                      /\ p[1] \in DOMAIN self.seasons
                      /\ p[2] \in DOMAIN self.seasons[p[1]]
                      /\ p[3] \in DOMAIN self.seasons[p[1]][p[2]] })

NoLookup == [level |-> "", season |-> IntKey(0), episode |-> IntKey(0), key |-> IntKey(0),
             exc |-> "", data |-> Stored(EmptyText)]

----------------------------------------------------------------------------
(* tvdb_api.py: ShowContainer, a dict with the list _stack of the keys     *)
(* assigned.  stale says that more than 20 seconds have passed since       *)
(* _lastgc (the test of line 272).                                         *)

NewShowContainer == [dict |-> EmptyDict, stack |-> <<>>, stale |-> FALSE]

(* del d[key], defined when key is a key of d *)
DelKey(d, key) == [k \in DOMAIN d \ {key} |-> d[k]]

RECURSIVE DelAll(_, _)
(* lines 273-274: del self[o] for the keys of the list, in order; a key    *)
(* that is no longer in the dict raises KeyError and leaves the dict as it *)
(* is then                                                                 *)
DelAll(d, keys) ==
    IF keys = <<>> THEN [exc |-> "", dict |-> d]
    ELSE IF keys[1] \notin DOMAIN d THEN [exc |-> "KeyError", dict |-> d]
    ELSE DelAll(DelKey(d, keys[1]), Tail(keys))

(* seq[:-n] and seq[-n:] *)
AllButLast(seq, n) == SubSeq(seq, 1, Len(seq) - n)

LastOf(seq, n) == IF Len(seq) <= n THEN seq ELSE SubSeq(seq, Len(seq) - n + 1, Len(seq))

(* lines 272-276 after the deletions *)
Collected(self, stack, deleted, key, value) ==
    IF deleted.exc # ""
    THEN [exc |-> deleted.exc,
          self |-> [dict |-> deleted.dict, stack |-> stack, stale |-> TRUE]]
    ELSE [exc |-> "",
          self |-> [dict |-> SetKey(deleted.dict, key, value),
                    stack |-> LastOf(stack, Latest), stale |-> FALSE]]

(* ShowContainer.__setitem__: the container afterwards and the exception   *)
(* that left it                                                            *)
ShowContainer_setitem(self, key, value) ==
    IF self.stale
    THEN Collected(self, Append(self.stack, key),
                   DelAll(self.dict, AllButLast(Append(self.stack, key), Latest)),
                   key, value)
    ELSE [exc |-> "",
          self |-> [dict |-> SetKey(self.dict, key, value),
                    stack |-> Append(self.stack, key), stale |-> FALSE]]

(* Tvdb(dvdorder=...) after __init__: no show, no correction, not          *)
(* authorized; nextoid numbers the objects made                            *)
NewTvdb(dvdorder) ==
    [shows |-> NewShowContainer, corrections |-> EmptyDict, authorized |-> FALSE,
     authorization |-> None, dvdorder |-> dvdorder, nextoid |-> 1]

NoNet == [caching |-> FALSE, cache |-> {}, log |-> <<>>]

NoUi == [pc |-> "", all_series |-> <<>>, select_first |-> FALSE, asked |-> <<>>,
         printed |-> "", exc |-> "", data |-> 0]

----------------------------------------------------------------------------
(* tvdb_api.py: ConsoleUI.select_series.  An answer is the text of the     *)
(* line input() returns, a sequence of characters; EOF and Interrupt stand *)
(* for input() raising EOFError and KeyboardInterrupt.                     *)

EOF == <<"<EOF>">>

Interrupt == <<"<KeyboardInterrupt>">>

RECURSIVE lstrip(_)
lstrip(s) == IF s # <<>> /\ s[1] = " " THEN lstrip(Tail(s)) ELSE s

RECURSIVE rstrip(_)
rstrip(s) == IF s # <<>> /\ s[Len(s)] = " " THEN rstrip(SubSeq(s, 1, Len(s) - 1)) ELSE s

(* str.strip() *)
strip(s) == rstrip(lstrip(s))

(* the characters and words of the model that str.lower() changes *)
LowerAtom(c) ==
    CASE c = "A" -> "a" [] c = "L" -> "l" [] c = "Q" -> "q" [] c = "M" -> "m"
      [] c = "Y" -> "y" [] c = "D" -> "d" [] c = "N" -> "n"
      [] c = "Not" -> "not" [] c = "Authorized" -> "authorized"
      [] OTHER -> c

(* str.lower() *)
lower(s) == [i \in 1..Len(s) |-> LowerAtom(s[i])]

(* the digits of a decimal literal after the blanks around it and its sign *)
IntDigits(s) ==
    IF strip(s) # <<>> /\ strip(s)[1] \in {"-", "+"} THEN Tail(strip(s)) ELSE strip(s)

(* int(s) does not raise ValueError *)
IntParses(s) == IntDigits(s) # <<>> /\ AllDigits(IntDigits(s))

(* int(s) *)
IntOf(s) ==
    IF strip(s)[1] = "-" THEN 0 - DigitsVal(IntDigits(s)) ELSE DigitsVal(IntDigits(s))

(* list[i] of Python: a negative index counts from the end *)
ListItem(list, i) ==
    IF 0 <= i /\ i < Len(list) THEN [exc |-> "", data |-> list[i + 1]]
    ELSE IF i < 0 /\ 0 - i <= Len(list) THEN [exc |-> "", data |-> list[Len(list) + i + 1]]
    ELSE [exc |-> "IndexError", data |-> 0]

Returned(self, series, printed) ==
    [self EXCEPT !.pc = "returned", !.data = series, !.printed = printed]

Aborted(self) == [self EXCEPT !.pc = "raised", !.exc = "TvdbUserAbort", !.printed = ""]

Prompting(self, printed) == [self EXCEPT !.pc = "prompt", !.printed = printed]

(* lines 203-212: up to the first prompt *)
select_series(self) ==
    IF Len(self.all_series) = 1
    THEN Returned(self, self.all_series[1], "Automatically selecting only result")
    ELSE IF self.select_first
    THEN Returned(self, self.all_series[1], "Automatically returning first search result")
    ELSE Prompting(self, "TVDB Search Results:")

(* lines 214-253: one turn of the loop, for the answer of input() *)
answered(self, ans) ==
    IF ans = Interrupt \/ ans = EOF THEN Aborted(self)
    ELSE IF ~IntParses(ans)
    THEN IF Len(strip(ans)) = 0 THEN Returned(self, self.all_series[1], "")
         ELSE IF ans = <<"q">> THEN Aborted(self)
         ELSE IF ans = <<"?">> THEN Prompting(self, "## Help")
         ELSE IF lower(ans) \in {<<"a">>, <<"a", "l", "l">>}
         THEN Prompting(self, "TVDB Search Results:")
         ELSE Prompting(self, "")
    ELSE IF ListItem(self.all_series, IntOf(ans) - 1).exc = ""
    THEN Returned(self, ListItem(self.all_series, IntOf(ans) - 1).data, "")
    ELSE Prompting(self, "Invalid number (%s) selected!")

----------------------------------------------------------------------------
(* tvdb_api.py: Episode.search, Season.search, Show.search, Show.aired_on. *)
(* An episode of a result list is the pair of its season and episode keys. *)
(* The order in which a dict is walked is the order of its keys in rank.   *)

(* str(value) of a stored value *)
str_value(value) == IF value = None THEN <<"N", "o", "n", "e">> ELSE value

(* text.find(term) > -1 *)
Contains(text, term) ==
    \E i \in 0..(Len(text) - Len(term)) : SubSeq(text, i + 1, i + Len(term)) = term

(* the test of line 466 without the conversion of the value to lower case *)
Episode_search_CaseSensitive(self, term, key) ==
    IF term = None THEN [exc |-> "TypeError", data |-> FALSE]
    ELSE [exc |-> "",
          data |-> \E cur_key \in DOMAIN self :
                      /\ ~(key # None /\ cur_key.text # key)
                      /\ Contains(str_value(self[cur_key]), lower(term))]

(* Episode.search: raises, or says whether self (TRUE) or None is returned *)
Episode_search(self, term, key) ==
    IF term = None THEN [exc |-> "TypeError", data |-> FALSE]
    ELSE [exc |-> "",
          data |-> \E cur_key \in DOMAIN self :
                      /\ ~(key # None /\ cur_key.text # key)
                      /\ Contains(lower(str_value(self[cur_key])), lower(term))]

(* the keys of a dict in the order of rank *)
Walk(dict, rank) == SelectSeq(rank, LAMBDA k : k \in DOMAIN dict)

RECURSIVE SeasonResults(_, _, _, _)
(* lines 406-409 for the episodes whose keys are eps *)
SeasonResults(self, eps, term, key) ==
    IF eps = <<>> THEN [exc |-> "", data |-> <<>>]
    ELSE LET searchresult == Episode_search(self[eps[1]], term, key)
             rest == SeasonResults(self, Tail(eps), term, key)
         IN  IF searchresult.exc # "" THEN [exc |-> searchresult.exc, data |-> <<>>]
             ELSE IF rest.exc # "" THEN rest
             ELSE [exc |-> "",
                   data |-> IF searchresult.data THEN <<eps[1]>> \o rest.data
                            ELSE rest.data]

(* Season.search: the keys of the episodes returned *)
Season_search(self, term, key, rank) == SeasonResults(self, Walk(self, rank), term, key)

RECURSIVE ShowResults(_, _, _, _, _)
(* lines 371-374 for the seasons whose keys are seasons *)
ShowResults(self, seasons, term, key, rank) ==
    IF seasons = <<>> THEN [exc |-> "", data |-> <<>>]
    ELSE LET searchresult == Season_search(self.seasons[seasons[1]], term, key, rank)
             rest == ShowResults(self, Tail(seasons), term, key, rank)
         IN  IF searchresult.exc # "" THEN searchresult
             ELSE IF rest.exc # "" THEN rest
             ELSE [exc |-> "",
                   data |-> [i \in 1..Len(searchresult.data) |->
                                <<seasons[1], searchresult.data[i]>>] \o rest.data]

(* Show.search *)
Show_search(self, term, key, rank) ==
    ShowResults(self, Walk(self.seasons, rank), term, key, rank)

(* Show.aired_on; date is str(date) *)
aired_on(self, date, rank) ==
    LET ret == Show_search(self, date, T("firstAired"), rank)
    IN  IF ret.exc # "" THEN ret
        ELSE IF Len(ret.data) = 0 THEN [exc |-> "TvdbEpisodeNotFound", data |-> <<>>]
        ELSE ret

----------------------------------------------------------------------------
(* tvdb_api.py: Tvdb.  A Show of the container is a record with the        *)
(* identity oid of the object; a Season keeps the identity of its show, an *)
(* Episode that of its season.  A number or null of the JSON of the server *)
(* is a key record.  A url is the text after the address of the server.    *)

JsonNull == StrKey(None)

LinkedShow(oid) == [oid |-> oid, seasons |-> EmptyDict, data |-> EmptyDict]

(* lines 790-791, 801-802: if sid not in self.shows: self.shows[sid] = Show() *)
WithShow(self, sid) ==
    IF sid \in DOMAIN self.shows.dict THEN self
    ELSE [self EXCEPT
            !.shows = ShowContainer_setitem(self.shows, sid, LinkedShow(self.nextoid)).self,
            !.nextoid = @ + 1]

(* a Season made without its show *)
WithSeason_NoShow(self, sid, seas) ==
    IF seas \in DOMAIN self.shows.dict[sid].seasons THEN self
    ELSE [self EXCEPT
            !.shows.dict[sid].seasons =
                SetKey(@, seas, [oid |-> self.nextoid, show |-> 0, episodes |-> EmptyDict]),
            !.nextoid = @ + 1]

(* lines 792-793 *)
WithSeason(self, sid, seas) ==
    IF seas \in DOMAIN self.shows.dict[sid].seasons THEN self
    ELSE [self EXCEPT
            !.shows.dict[sid].seasons =
                SetKey(@, seas, [oid |-> self.nextoid, show |-> self.shows.dict[sid].oid,
                                 episodes |-> EmptyDict]),
            !.nextoid = @ + 1]

(* lines 794-795 *)
WithEpisode(self, sid, seas, ep) ==
    IF ep \in DOMAIN self.shows.dict[sid].seasons[seas].episodes THEN self
    ELSE [self EXCEPT
            !.shows.dict[sid].seasons[seas].episodes =
                SetKey(@, ep, [oid |-> self.nextoid,
                               season |-> self.shows.dict[sid].seasons[seas].oid,
                               attrs |-> EmptyDict]),
            !.nextoid = @ + 1]

(* line 796 *)
SetAttribute(self, sid, seas, ep, attrib, value) ==
    [self EXCEPT !.shows.dict[sid].seasons[seas].episodes[ep].attrs =
                    SetKey(@, attrib, value)]

(* Tvdb._set_item *)
Tvdb_set_item(self, sid, seas, ep, attrib, value) ==
    SetAttribute(WithEpisode(WithSeason(WithShow(self, sid), sid, seas), sid, seas, ep),
                 sid, seas, ep, attrib, value)

SetData(self, sid, key, value) ==
    [self EXCEPT !.shows.dict[sid].data = SetKey(@, key, value)]

(* Tvdb._set_show_data *)
Tvdb_set_show_data(self, sid, key, value) == SetData(WithShow(self, sid), sid, key, value)

(* the texts of the 'Error' of a response *)
NoError == <<>>

ResourceNotFound == <<"Resource", " ", "not", " ", "found">>

ServerError == <<"Internal", " ", "Server", " ", "Error">>

IdNotFound(sid) == <<"ID:", " ">> \o NatStr(sid) \o <<" ", "not", " ", "found">>

(* error.startswith("ID: ") and error.endswith("not found") *)
IsIdNotFound(error) ==
    /\ Len(error) >= 2 /\ SubSeq(error, 1, 2) = <<"ID:", " ">>
    /\ Len(error) >= 3 /\ SubSeq(error, Len(error) - 2, Len(error)) = <<"not", " ", "found">>

(* lines 729-740: the exception of _load_url for the 'Error' of a response *)
ErrorRaised(error) ==
    IF error = NoError \/ error = ResourceNotFound THEN ""
    ELSE IF lower(error) = <<"not", " ", "authorized">> THEN "TvdbNotAuthorized"
    ELSE IF IsIdNotFound(error) THEN "TvdbShowNotFound"
    ELSE "TvdbError"

(* the request in the log of the session: the Authorization header sent,   *)
(* whether the cache answered, and the 'Error' and 'token' of the response *)
Logged(session, method, url, authorization, cached, error, token) ==
    [session EXCEPT !.log = Append(@, [method |-> method, url |-> url,
                                       authorization |-> authorization,
                                       cached |-> cached, error |-> error,
                                       token |-> token])]

(* Tvdb.authorize, for the response login of the server; m is the instance *)
(* and its session, with the exception raised                              *)
authorize(m, login) ==
    IF login.error = <<"Not", " ", "Authorized">>
    THEN [tvdb |-> m.tvdb,
          net |-> Logged(m.net, "POST", T("login"), m.tvdb.authorization, FALSE, login.error,
                         login.token),
          exc |-> "TvdbNotAuthorized"]
    ELSE [tvdb |-> [m.tvdb EXCEPT !.authorization = <<"Bearer", " ">> \o str_value(login.token),
                                  !.authorized = TRUE],
          net |-> Logged(m.net, "POST", T("login"), m.tvdb.authorization, FALSE, login.error,
                         login.token),
          exc |-> ""]

(* the session has a cache with the response of the url: cache_key is not  *)
(* None and self.session.cache.has_key(cache_key)                          *)
InCache(session, url) == session.caching /\ url \in session.cache

(* lines 719-759 for the response r: data is r.get('data'), isnone says    *)
(* that it is None                                                         *)
Received(m, url, cached, r) ==
    [tvdb |-> m.tvdb,
     net |-> [Logged(m.net, "GET", url, m.tvdb.authorization, cached, r.error, None)
                EXCEPT !.cache = IF m.net.caching /\ r.error = NoError
                                 THEN @ \cup {url} ELSE @],
     exc |-> ErrorRaised(r.error),
     isnone |-> r.error # NoError,
     data |-> r.data]

(* line 719: session.get; a cached url is answered from the cache, with    *)
(* the response stored, another by the server with reply                   *)
Fetched(m, url, stored, reply) ==
    IF m.exc # "" THEN [tvdb |-> m.tvdb, net |-> m.net, exc |-> m.exc,
                        isnone |-> TRUE, data |-> <<>>]
    ELSE IF InCache(m.net, url) THEN Received(m, url, TRUE, stored)
    ELSE Received(m, url, FALSE, reply)

(* _load_url that logs in before every request of a url not in the cache *)
load_url_AlwaysLogin(m, url, stored, reply, login) ==
    IF ~InCache(m.net, url)
    THEN Fetched(authorize(m, login), url, stored, reply)
    ELSE Fetched(m, url, stored, reply)

(* Tvdb._load_url *)
load_url(m, url, stored, reply, login) ==
    IF ~m.tvdb.authorized /\ ~InCache(m.net, url)
    THEN Fetched(authorize(m, login), url, stored, reply)
    ELSE Fetched(m, url, stored, reply)

(* what the server has: two series, the second without episodes.  The      *)
(* episode records of the first have every combination of aired and DVD    *)
(* numbers that are null or not, and no two share a place in either order  *)
Record(id, airedSeason, airedEpisodeNumber, dvdSeason, dvdEpisodeNumber) ==
    [id |-> IntKey(id), airedSeason |-> airedSeason,
     airedEpisodeNumber |-> airedEpisodeNumber,
     dvdSeason |-> dvdSeason, dvdEpisodeNumber |-> dvdEpisodeNumber]

RecordTags == <<"id", "airedSeason", "airedEpisodeNumber", "dvdSeason", "dvdEpisodeNumber">>

EpisodeRecords ==
    <<Record(15, IntKey(1), JsonNull, JsonNull, IntKey(1)),
      Record(11, IntKey(1), IntKey(1), IntKey(2), IntKey(1)),
      Record(14, JsonNull, IntKey(1), IntKey(2), IntKey(2)),
      Record(12, IntKey(1), IntKey(2), JsonNull, JsonNull),
      Record(13, IntKey(1), IntKey(3), IntKey(2), JsonNull)>>

SearchUrl(name) == <<"search/series?name=">> \o name

SeriesUrl(sid) == <<"series/">> \o NatStr(sid)

EpisodesUrl(sid) == <<"series/">> \o NatStr(sid) \o <<"/episodes">>

Data(data) == [error |-> NoError, data |-> data]

Failed(error) == [error |-> error, data |-> <<>>]

ServerReply(url) ==
    CASE url = SearchUrl(T("Scrubs")) -> Data(<<1>>)
      [] url = SearchUrl(T("Firefly")) -> Data(<<2>>)
      [] url = SeriesUrl(1) -> Data(<<<<StrKey(T("seriesName")), T("Scrubs")>>>>)
      [] url = SeriesUrl(2) -> Data(<<<<StrKey(T("seriesName")), T("Firefly")>>>>)
      [] url = EpisodesUrl(1) -> Data(EpisodeRecords)
      [] url = SeriesUrl(9) -> Failed(IdNotFound(9))
      [] OTHER -> Failed(ResourceNotFound)

(* the response to the request of one kind: o says which request of the    *)
(* call fails, and with which error                                        *)
Reply(o, kind, url) == IF o.fail = kind THEN Failed(o.error) ELSE ServerReply(url)

(* lines 812-824 *)
FoundSeries(r) ==
    IF r.exc # "" THEN r
    ELSE IF r.isnone \/ r.data = <<>> THEN [r EXCEPT !.exc = "TvdbShowNotFound"]
    ELSE r

(* Tvdb.search *)
search(m, series, o) ==
    FoundSeries(load_url(m, SearchUrl(series), ServerReply(SearchUrl(series)),
                         Reply(o, "search", SearchUrl(series)), o.login))

RECURSIVE SetAllData(_, _, _)
(* lines 964-969 *)
SetAllData(self, sid, items) ==
    IF items = <<>> THEN self
    ELSE SetAllData(Tvdb_set_show_data(self, sid, items[1][1], items[1][2]), sid, Tail(items))

(* lines 963-971 *)
WithInfo(r, sid) ==
    IF r.exc # "" THEN r
    ELSE IF r.isnone THEN [r EXCEPT !.exc = "AttributeError"]
    ELSE [r EXCEPT !.tvdb = Tvdb_set_show_data(SetAllData(r.tvdb, sid, r.data), sid,
                                               StrKey(T("language")), T("en"))]

RECURSIVE SetAllItems(_, _, _, _, _, _)
(* lines 1015-1021 *)
SetAllItems(self, sid, seas_no, ep_no, cur_ep, tags) ==
    IF tags = <<>> THEN self
    ELSE SetAllItems(Tvdb_set_item(self, sid, seas_no, ep_no, StrKey(T(tags[1])),
                                   cur_ep[tags[1]]),
                     sid, seas_no, ep_no, cur_ep, Tail(tags))

(* lines 990-1021 with the DVD numbers used whenever dvdorder is set *)
StoreRecord_DvdAlways(self, sid, cur_ep) ==
    IF self.dvdorder
    THEN IF cur_ep.dvdSeason = JsonNull \/ cur_ep.dvdEpisodeNumber = JsonNull THEN self
         ELSE SetAllItems(self, sid, cur_ep.dvdSeason, cur_ep.dvdEpisodeNumber,
                          cur_ep, RecordTags)
    ELSE IF cur_ep.airedSeason = JsonNull \/ cur_ep.airedEpisodeNumber = JsonNull THEN self
    ELSE SetAllItems(self, sid, cur_ep.airedSeason, cur_ep.airedEpisodeNumber,
                     cur_ep, RecordTags)

(* lines 990-1021: one record of the episodes *)
StoreRecord(self, sid, cur_ep) ==
    IF self.dvdorder /\ cur_ep.dvdSeason # JsonNull /\ cur_ep.dvdEpisodeNumber # JsonNull
    THEN SetAllItems(self, sid, cur_ep.dvdSeason, cur_ep.dvdEpisodeNumber,
                     cur_ep, RecordTags)
    ELSE IF cur_ep.airedSeason = JsonNull \/ cur_ep.airedEpisodeNumber = JsonNull THEN self
    ELSE SetAllItems(self, sid, cur_ep.airedSeason, cur_ep.airedEpisodeNumber,
                     cur_ep, RecordTags)

RECURSIVE StoreAll(_, _, _)
StoreAll(self, sid, eps_resp) ==
    IF eps_resp = <<>> THEN self
    ELSE StoreAll(StoreRecord(self, sid, eps_resp[1]), sid, Tail(eps_resp))

(* lines 988-1021 *)
WithEpisodes(r, sid) ==
    IF r.exc # "" THEN r
    ELSE IF r.isnone THEN [r EXCEPT !.exc = "TypeError"]
    ELSE [r EXCEPT !.tvdb = StoreAll(r.tvdb, sid, r.data)]

(* lines 984-986 *)
LoadEpisodes(r, sid, o) ==
    IF r.exc # "" THEN r
    ELSE WithEpisodes(load_url(r, EpisodesUrl(sid), ServerReply(EpisodesUrl(sid)),
                               Reply(o, "episodes", EpisodesUrl(sid)), o.login), sid)

(* Tvdb._get_show_data, banners and actors not enabled *)
get_show_data(m, sid, o) ==
    LoadEpisodes(WithInfo(load_url(m, SeriesUrl(sid), ServerReply(SeriesUrl(sid)),
                                   Reply(o, "series", SeriesUrl(sid)), o.login), sid),
                 sid, o)

(* lines 1034-1038 with the correction recorded whatever the search gave *)
SelectedSeries_Recorded(r, name, o) ==
    IF r.exc # "" THEN [r EXCEPT !.tvdb.corrections = SetKey(@, name, 0)]
    ELSE get_show_data([r EXCEPT !.tvdb.corrections = SetKey(@, name, r.data[1])],
                       r.data[1], o)

(* lines 1034-1038: the first series, as BaseUI selects it *)
SelectedSeries(r, name, o) ==
    IF r.exc # "" THEN r
    ELSE get_show_data([r EXCEPT !.tvdb.corrections = SetKey(@, name, r.data[1])],
                       r.data[1], o)

(* the series id __getitem__ has after lines 1046-1049 *)
SidOf(m, key) ==
    IF key.isint THEN DigitsVal(key.text)
    ELSE IF key.text \in DOMAIN m.tvdb.corrections THEN m.tvdb.corrections[key.text]
    ELSE 0

(* Tvdb._name_to_sid *)
name_to_sid(m, name, o) ==
    IF name \in DOMAIN m.tvdb.corrections
    THEN [tvdb |-> m.tvdb, net |-> m.net, exc |-> "", isnone |-> TRUE, data |-> <<>>]
    ELSE SelectedSeries(search(m, name, o), name, o)

(* lines 1052-1054 *)
Loaded(r, sid, o) ==
    IF r.exc # "" THEN r
    ELSE IF sid \notin DOMAIN r.tvdb.shows.dict THEN get_show_data(r, sid, o)
    ELSE r

LoadedByName(r, name, o) ==
    IF r.exc # "" THEN r ELSE Loaded(r, r.tvdb.corrections[name], o)

(* Tvdb.__getitem__ *)
Tvdb_getitem(m, key, o) ==
    IF key.isint
    THEN Loaded([tvdb |-> m.tvdb, net |-> m.net, exc |-> "", isnone |-> TRUE,
                 data |-> <<>>], DigitsVal(key.text), o)
    ELSE LoadedByName(name_to_sid(m, key.text, o), key.text, o)

----------------------------------------------------------------------------
(* The state: showtree is the source document, dvdroot the tree the last   *)
(* completed call returned, calls the record of the calls made, with the   *)
(* argument and the result of each as values.                              *)

NoValue == [text |-> None, kids |-> <<>>]

Init ==
    /\ showtree \in { [series |-> 2, episodes |-> d] : d \in Documents }
    /\ heap = SourceHeap(T("Firefly"))
    /\ dvdroot = NoTree
    /\ calls = <<>>
    /\ episode_parts = <<>>
    /\ agg = [fn |-> "", tag |-> "", exc |-> "", data |-> EmptyText]
    /\ show = NewShow
    /\ lookup = NoLookup
    /\ tvdb = NewTvdb(FALSE)
    /\ net = NoNet
    /\ ui = NoUi

(* the call ends: r is the outcome of create_dvd_tree, copy the heap with  *)
(* the copy of the Series element made at line 88                          *)
CallEnds(r, copy) ==
    /\ showtree' = [showtree EXCEPT !.episodes = AfterWrites(@, r.writes)]
    /\ IF r.exc = ""
       THEN /\ heap' = copy.heap
            /\ dvdroot' = [series |-> copy.id, episodes |-> r.data]
       ELSE /\ heap' = heap                            \* the copy is garbage
            /\ dvdroot' = dvdroot
    /\ calls' = Append(calls,
          [arg |-> SourceValue,
           exc |-> r.exc,
           series |-> IF r.exc = "" THEN Value(copy.heap, copy.id) ELSE NoValue,
           episodes |-> r.data])

(* dvdroot = create_dvd_tree(showtree) *)
CreateDvdTree ==
    /\ Len(calls) < MaxCalls
    /\ \E order \in IterationOrders(get_element_texts("DVD_season")) :
          CallEnds(create_dvd_tree(order), deepcopy(Live(heap), showtree.series))
    /\ UNCHANGED <<episode_parts, agg>>
    /\ UNCHANGED apivars

Next == CreateDvdTree

Spec == Init /\ [][Next]_vars

----------------------------------------------------------------------------
(* The caller changes the text of an element of the source's Series        *)
(* subtree, or of the Series subtree of the tree it got back               *)

SetSourceText ==
    /\ \E id \in Reach(heap, showtree.series), text \in SeriesTexts :
          /\ heap[id].text # text
          /\ heap' = [heap EXCEPT ![id].text = text]
    /\ UNCHANGED <<showtree, dvdroot, calls, episode_parts, agg>>
    /\ UNCHANGED apivars

SetResultText ==
    /\ dvdroot # NoTree
    /\ \E id \in Reach(heap, dvdroot.series), text \in SeriesTexts :
          /\ heap[id].text # text
          /\ heap' = [heap EXCEPT ![id].text = text]
    /\ UNCHANGED <<showtree, dvdroot, calls, episode_parts, agg>>
    /\ UNCHANGED apivars

InitClone ==
    /\ showtree \in { [series |-> 2, episodes |-> d] : d \in ScenarioDocs }
    /\ heap \in { SourceHeap(name) : name \in SeriesTexts }
    /\ dvdroot = NoTree
    /\ calls = <<>>
    /\ episode_parts = <<>>
    /\ agg = [fn |-> "", tag |-> "", exc |-> "", data |-> EmptyText]
    /\ show = NewShow
    /\ lookup = NoLookup
    /\ tvdb = NewTvdb(FALSE)
    /\ net = NoNet
    /\ ui = NoUi

NextClone == CreateDvdTree \/ SetSourceText \/ SetResultText

SpecClone == InitClone /\ [][NextClone]_vars

----------------------------------------------------------------------------
(* The aggregation functions called on a group: the episodes of the        *)
(* document are the members, and differ in one field                       *)

FieldValues(tag) ==
    IF tag = "Director"
    THEN {None, <<"Smith", "|", "Jones">>, <<"Jones", "|">>, <<"None", "|">>,
          <<"|", "Jones", "|", "Smith", "|">>}
    ELSE IF tag = "Rating"
    THEN {None, Key("8", ".", "0"), Key("9", ".", "0"), T("x")}
    ELSE IF tag = "EpImgFlag"
    THEN {None, T("0"), T("1")}
    ELSE {None, T("P1"), T("P2")}

FieldTags == {"Director", "Rating", "EpImgFlag", "ProductionCode"}

(* the members of a group: with the field or without the element *)
Members(tag) ==
    LET fields == {<<>>} \cup { <<El(tag, v)>> : v \in FieldValues(tag) }
    IN  { Ep(T("1"), Key("1", ".", "0"), T("Alpha"), T("first"), f) : f \in fields }
        \cup { Ep(T("1"), Key("1", ".", "1"), T("Beta"), None, f) : f \in fields }

Groups ==
    UNION { UNION { [1..n -> Members(tag)] : n \in 1..MaxEpisodes } : tag \in FieldTags }

InitAgg ==
    /\ showtree \in { [series |-> 2, episodes |-> g] : g \in Groups }
    /\ heap = SourceHeap(T("Firefly"))
    /\ dvdroot = NoTree
    /\ calls = <<>>
    /\ episode_parts = [i \in 1..Len(showtree.episodes) |-> Segment(i)]
    /\ agg = [fn |-> "", tag |-> "", exc |-> "", data |-> EmptyText]
    /\ show = NewShow
    /\ lookup = NoLookup
    /\ tvdb = NewTvdb(FALSE)
    /\ net = NoNet
    /\ ui = NoUi

Called(fn, tag, result) ==
    /\ agg' = [fn |-> fn, tag |-> tag, exc |-> result.exc, data |-> result.data]
    /\ UNCHANGED <<showtree, heap, dvdroot, calls>>
    /\ UNCHANGED apivars

CallTitle ==
    /\ Called("create_episode_title", "", Ok(create_episode_title(episode_parts)))
    /\ UNCHANGED episode_parts

CallOverview ==
    /\ Called("create_episode_overview", "", Ok(create_episode_overview(episode_parts)))
    /\ episode_parts' = OverviewSegments(episode_parts)

CallPipedList ==
    /\ Called("compile_piped_list", "Director",
              Ok(compile_piped_list(episode_parts, "Director")))
    /\ UNCHANGED episode_parts

CallSingleEntry ==
    /\ Called("retrieve_single_entry", "ProductionCode",
              Ok(retrieve_single_entry(episode_parts, "ProductionCode")))
    /\ UNCHANGED episode_parts

CallBooleanFlag ==
    /\ Called("get_boolean_flag", "EpImgFlag", get_boolean_flag(episode_parts, "EpImgFlag"))
    /\ UNCHANGED episode_parts

CallAverage ==
    /\ Called("get_average_value", "Rating", Ok(get_average_value(episode_parts, "Rating")))
    /\ UNCHANGED episode_parts

(* The merged episode of lines 113-135, with the title, the overview and   *)
(* the Director text the aggregators gave, becomes the only member of the  *)
(* next group                                                              *)
MergedAsGroup ==
    /\ agg.fn = "compile_piped_list"
    /\ agg.exc = ""
    /\ showtree' = [showtree EXCEPT !.episodes =
                        <<Ep(T("1"), Key("1", ".", "0"),
                             create_episode_title(episode_parts),
                             create_episode_overview(episode_parts),
                             <<El("Director", agg.data)>>)>>]
    /\ episode_parts' = <<[name |-> create_episode_title(episode_parts),
                           overview |-> create_episode_overview(episode_parts),
                           EpNode |-> 1]>>
    /\ UNCHANGED <<heap, dvdroot, calls, agg>>
    /\ UNCHANGED apivars

NextAgg ==
    \/ CallTitle
    \/ CallOverview
    \/ CallPipedList
    \/ CallSingleEntry
    \/ CallBooleanFlag
    \/ CallAverage
    \/ MergedAsGroup

SpecAgg == InitAgg /\ [][NextAgg]_vars

----------------------------------------------------------------------------
(* Lookups in a Show that _set_item and _set_show_data have filled *)

dvdvars == <<showtree, heap, dvdroot, calls, episode_parts, agg>>

InitLookup ==
    /\ showtree = [series |-> 2, episodes |-> <<>>]
    /\ heap = SourceHeap(T("Firefly"))
    /\ dvdroot = NoTree
    /\ calls = <<>>
    /\ episode_parts = <<>>
    /\ agg = [fn |-> "", tag |-> "", exc |-> "", data |-> EmptyText]
    /\ show = NewShow
    /\ lookup = NoLookup
    /\ tvdb = NewTvdb(FALSE)
    /\ net = NoNet
    /\ ui = NoUi

(* the Show after a call that sets an entry: a new entry only while the    *)
(* Show has fewer than MaxEntries                                          *)
Filled(after) ==
    /\ after # show
    /\ Entries(after) > Entries(show) => Entries(show) < MaxEntries
    /\ show' = after
    /\ lookup' = NoLookup
    /\ UNCHANGED dvdvars
    /\ UNCHANGED <<tvdb, net, ui>>

SetItem ==
    \E seas \in SeasonNumbers, ep \in EpisodeNumbers,
       attrib \in AttributeNames, value \in Values :
        Filled(set_item(show, seas, ep, attrib, value))

SetShowData ==
    \E key \in DataTags, value \in Values : Filled(set_show_data(show, key, value))

Looked(level, seas, ep, key, result) ==
    /\ lookup' = [level |-> level, season |-> seas, episode |-> ep, key |-> key,
                  exc |-> result.exc, data |-> result.data]
    /\ UNCHANGED show
    /\ UNCHANGED dvdvars
    /\ UNCHANGED <<tvdb, net, ui>>

(* show[key] *)
LookupShow ==
    \E key \in LookupKeys : Looked("Show", IntKey(0), IntKey(0), key, Show_getitem(show, key))

(* show[seas][n], seas a season of the Show *)
LookupSeason ==
    \E seas \in DOMAIN show.seasons, n \in LookupKeys :
        Looked("Season", seas, IntKey(0), n, Season_getitem(show.seasons[seas], n))

(* show[seas][ep][key], ep an episode of the season *)
LookupEpisode ==
    \E seas \in DOMAIN show.seasons :
        \E ep \in DOMAIN show.seasons[seas], key \in LookupKeys :
            Looked("Episode", seas, ep, key, Episode_getitem(show.seasons[seas][ep], key))

NextLookup ==
    \/ SetItem
    \/ SetShowData
    \/ LookupShow
    \/ LookupSeason
    \/ LookupEpisode

SpecLookup == InitLookup /\ [][NextLookup]_vars

----------------------------------------------------------------------------
(* Assignments to a ShowContainer.  calls is the record of the             *)
(* assignments made: the key, the stack and whether the collection was due *)
(* before the call, and the exception                                      *)

(* a container after the assignments of the keys of the list, made within  *)
(* 20 seconds of its creation                                              *)
Assigned(keys) ==
    [dict |-> [k \in { keys[i] : i \in 1..Len(keys) } |-> NewShow],
     stack |-> keys, stale |-> FALSE]

ManyKeys == [i \in 1..(Latest - 1) |-> i]

InitCache ==
    /\ showtree = [series |-> 2, episodes |-> <<>>]
    /\ heap = SourceHeap(T("Firefly"))
    /\ dvdroot = NoTree
    /\ calls = <<>>
    /\ episode_parts = <<>>
    /\ agg = [fn |-> "", tag |-> "", exc |-> "", data |-> EmptyText]
    /\ show = NewShow
    /\ lookup = NoLookup
    /\ \E keys \in {<<>>, ManyKeys, <<1>> \o ManyKeys} :
          tvdb = [NewTvdb(FALSE) EXCEPT !.shows = Assigned(keys)]
    /\ net = NoNet
    /\ ui = NoUi

AssignedKeys == {1, 2, Latest, Latest + 1, Latest + 2}

(* shows[key] = Show() *)
Assign ==
    /\ Len(calls) < MaxCalls
    /\ \E key \in AssignedKeys :
          /\ tvdb' = [tvdb EXCEPT !.shows =
                         ShowContainer_setitem(tvdb.shows, key, NewShow).self]
          /\ calls' = Append(calls,
                [arg |-> key, stack |-> tvdb.shows.stack, stale |-> tvdb.shows.stale,
                 exc |-> ShowContainer_setitem(tvdb.shows, key, NewShow).exc])
    /\ UNCHANGED <<showtree, heap, dvdroot, episode_parts, agg, show, lookup, net, ui>>

(* more than 20 seconds pass since the last collection *)
Elapse ==
    /\ ~tvdb.shows.stale
    /\ tvdb' = [tvdb EXCEPT !.shows.stale = TRUE]
    /\ UNCHANGED <<showtree, heap, dvdroot, calls, episode_parts, agg, show, lookup,
                   net, ui>>

NextCache == Assign \/ Elapse

SpecCache == InitCache /\ [][NextCache]_vars

----------------------------------------------------------------------------
(* ConsoleUI.select_series on the result list of a search, which is never  *)
(* empty; the series are their ids                                         *)

SeriesLists == {<<71>>, <<71, 72>>, <<71, 72, 73>>}

Answers ==
    {<<"1">>, <<"2">>, <<"3">>, <<"0">>, <<"9">>, <<"-", "1">>, <<"-", "9">>,
     <<" ", "2", " ">>, <<"+", "1">>, <<>>, <<" ">>, <<"q">>, <<"Q">>, <<"?">>,
     <<"a">>, <<"A", "L", "L">>, <<"x">>, <<"1", ".", "5">>, EOF, Interrupt}

InitUI ==
    /\ showtree = [series |-> 2, episodes |-> <<>>]
    /\ heap = SourceHeap(T("Firefly"))
    /\ dvdroot = NoTree
    /\ calls = <<>>
    /\ episode_parts = <<>>
    /\ agg = [fn |-> "", tag |-> "", exc |-> "", data |-> EmptyText]
    /\ show = NewShow
    /\ lookup = NoLookup
    /\ tvdb = NewTvdb(FALSE)
    /\ net = NoNet
    /\ \E all_series \in SeriesLists, select_first \in BOOLEAN :
          ui = [NoUi EXCEPT !.pc = "called", !.all_series = all_series,
                            !.select_first = select_first]

uiframe == <<showtree, heap, dvdroot, calls, episode_parts, agg, show, lookup, tvdb, net>>

(* select_series(all_series) runs to its return or to its first input() *)
SelectSeries ==
    /\ ui.pc = "called"
    /\ ui' = select_series(ui)
    /\ UNCHANGED uiframe

(* input() returns or raises, and the loop runs to the next input() *)
Answer ==
    /\ ui.pc = "prompt"
    /\ Len(ui.asked) < MaxPrompts
    /\ \E ans \in Answers :
          ui' = answered([ui EXCEPT !.asked = Append(ui.asked, ans)], ans)
    /\ UNCHANGED uiframe

NextUI == SelectSeries \/ Answer

SpecUI == InitUI /\ [][NextUI]_vars

----------------------------------------------------------------------------
(* Searches in a Show that _set_item has filled.  The values are texts of  *)
(* single characters, a date as the server sends it, and None; no term of  *)
(* the model is part of one of the words of a date.                        *)

SearchSlots == {<<IntKey(1), IntKey(1)>>, <<IntKey(1), IntKey(2)>>, <<IntKey(2), IntKey(1)>>}

SearchAttributes == {StrKey(T("episodeName")), StrKey(T("firstAired"))}

AiredDate == <<"2001", "-", "10", "-", "02">>

OtherDate == <<"1801", "-", "01", "-", "01">>

SearchValues == {<<"M", "y">>, None, AiredDate}

SearchTerms == {None, <<"m", "y">>, <<"Y">>, <<>>, <<"n", "o", "n", "e">>, <<"z">>}

SearchKeys == {None, T("episodeName")}

Ranks == IterationOrders({IntKey(1), IntKey(2)})

(* the attributes of the episodes of a Show *)
AttributesOf(self) ==
    { p \in SearchSlots \X SearchAttributes :
        /\ p[1][1] \in DOMAIN self.seasons
        /\ p[1][2] \in DOMAIN self.seasons[p[1][1]]
        /\ p[2] \in DOMAIN self.seasons[p[1][1]][p[1][2]] }

InitSearch ==
    /\ showtree = [series |-> 2, episodes |-> <<>>]
    /\ heap = SourceHeap(T("Firefly"))
    /\ dvdroot = NoTree
    /\ calls = <<>>
    /\ episode_parts = <<>>
    /\ agg = [fn |-> "", tag |-> "", exc |-> "", data |-> EmptyText]
    /\ show = NewShow
    /\ lookup = NoLookup
    /\ tvdb = NewTvdb(FALSE)
    /\ net = NoNet
    /\ ui = NoUi

(* _set_item(sid, seas, ep, attrib, value) *)
SetSearchItem ==
    /\ Cardinality(AttributesOf(show)) < MaxEntries
    /\ \E slot \in SearchSlots, attrib \in SearchAttributes, value \in SearchValues :
          /\ <<slot, attrib>> \notin AttributesOf(show)
          /\ show' = set_item(show, slot[1], slot[2], attrib, value)
    /\ lookup' = NoLookup
    /\ UNCHANGED dvdvars
    /\ UNCHANGED <<tvdb, net, ui>>

(* one search in the Show as it is filled: a search changes nothing of the  *)
(* Show, so the searches after it find what they find without it           *)
Searched(level, seas, ep, term, key, result) ==
    /\ lookup = NoLookup
    /\ lookup' = [level |-> level, season |-> seas, episode |-> ep, term |-> term,
                  key |-> key, exc |-> result.exc, data |-> result.data]
    /\ UNCHANGED show
    /\ UNCHANGED dvdvars
    /\ UNCHANGED <<tvdb, net, ui>>

(* show.search(term, key) *)
SearchShow ==
    \E term \in SearchTerms, key \in SearchKeys, rank \in Ranks :
        Searched("Show.search", IntKey(0), IntKey(0), term, key,
                 Show_search(show, term, key, rank))

(* show[seas].search(term, key) *)
SearchSeason ==
    \E seas \in DOMAIN show.seasons, term \in SearchTerms, key \in SearchKeys,
       rank \in Ranks :
        Searched("Season.search", seas, IntKey(0), term, key,
                 Season_search(show.seasons[seas], term, key, rank))

(* show[seas][ep].search(term, key) *)
SearchEpisode ==
    \E seas \in DOMAIN show.seasons :
        \E ep \in DOMAIN show.seasons[seas], term \in SearchTerms, key \in SearchKeys :
            Searched("Episode.search", seas, ep, term, key,
                     Episode_search(show.seasons[seas][ep], term, key))

(* show.aired_on(date) *)
AiredOn ==
    \E date \in {AiredDate, OtherDate}, rank \in Ranks :
        Searched("Show.aired_on", IntKey(0), IntKey(0), date, T("firstAired"),
                 aired_on(show, date, rank))

NextSearch == SetSearchItem \/ SearchShow \/ SearchSeason \/ SearchEpisode \/ AiredOn

SpecSearch == InitSearch /\ [][NextSearch]_vars

----------------------------------------------------------------------------
(* Lookups tvdb[key] on one Tvdb instance.  calls is the record of the     *)
(* lookups: the key, the instance and the length of the log before the     *)
(* call, and the exception.                                                *)

TvdbKeys ==
    {StrKey(T("Scrubs")), StrKey(T("Firefly")), StrKey(T("the fake show thingy")),
     IntKey(1), IntKey(9)}

LoginReplies ==
    {[error |-> NoError, token |-> T("token")],
     [error |-> <<"Not", " ", "Authorized">>, token |-> None],
     [error |-> ServerError, token |-> None]}

(* the request of the call that fails, if any, and the error of the server *)
Failures ==
    {[fail |-> "", error |-> NoError]}
        \cup { [fail |-> kind, error |-> ServerError] : kind \in {"search", "series", "episodes"} }
        \cup {[fail |-> "episodes", error |-> <<"Not", " ", "authorized">>]}

Oracles == { [login |-> l, fail |-> f.fail, error |-> f.error] : l \in LoginReplies, f \in Failures }

CachedUrls == {{}, {SearchUrl(T("Scrubs")), SeriesUrl(1)}}

InitTvdb ==
    /\ showtree = [series |-> 2, episodes |-> <<>>]
    /\ heap = SourceHeap(T("Firefly"))
    /\ dvdroot = NoTree
    /\ calls = <<>>
    /\ episode_parts = <<>>
    /\ agg = [fn |-> "", tag |-> "", exc |-> "", data |-> EmptyText]
    /\ show = NewShow
    /\ lookup = NoLookup
    /\ \E dvdorder \in BOOLEAN : tvdb = NewTvdb(dvdorder)
    /\ \E cache \in CachedUrls :
          net = [caching |-> cache # {}, cache |-> cache, log |-> <<>>]
    /\ ui = NoUi

GotItem(key, o, r) ==
    /\ tvdb' = r.tvdb
    /\ net' = r.net
    /\ calls' = Append(calls, [arg |-> key, before |-> tvdb,
                               requests |-> Len(net.log), exc |-> r.exc])
    /\ UNCHANGED <<showtree, heap, dvdroot, episode_parts, agg, show, lookup, ui>>

(* tvdb[key] *)
GetItem ==
    /\ Len(calls) < MaxCalls
    /\ \E key \in TvdbKeys, o \in Oracles :
          GotItem(key, o, Tvdb_getitem([tvdb |-> tvdb, net |-> net, exc |-> ""], key, o))

NextTvdb == GetItem

SpecTvdb == InitTvdb /\ [][NextTvdb]_vars

----------------------------------------------------------------------------
(* Properties *)

(* The properties of a call are stated of the call made last; every call   *)
(* of the record is the last one in the state it ends in.  ReturnedCalls   *)
(* is the last call when it returned a tree.                               *)
ReturnedCalls == { i \in {Len(calls)} : i > 0 /\ calls[i].exc = "" }

MadeCalls == { i \in {Len(calls)} : i > 0 }

Summary(episode) ==
    [season |-> TextOf(episode, "SeasonNumber"),
     number |-> TextOf(episode, "EpisodeNumber"),
     title |-> TextOf(episode, "EpisodeName"),
     overview |-> TextOf(episode, "Overview")]

Summaries(episodes) == [i \in 1..Len(episodes) |-> Summary(episodes[i])]

ScenarioExpected ==
    <<[season |-> T("1"), number |-> T("1"), title |-> T("Alpha"), overview |-> T("first")],
      [season |-> T("1"), number |-> T("2"), title |-> T("Beta"), overview |-> T("second")],
      [season |-> T("1"), number |-> T("3"),
       title |-> <<"Gamma1", " | ", "Gamma2">>,
       overview |-> <<"Gamma1", ":\n", "g1", "\n", "Gamma2", ":\n", "g2">>]>>

(* C1: create_dvd_tree applied to the four episodes of season "1" with the *)
(* keys "01", "02", "03.1", "03.2" returns exactly the three merged        *)
(* episodes 1 Alpha, 2 Beta, 3 "Gamma1 | Gamma2", in this order.           *)
C1_ScenarioOutput ==
    \A i \in MadeCalls :
        calls[i].arg.episodes \in { Scenario(PlainKeys, f) : f \in {<<>>, FullFields} }
        => /\ calls[i].exc = ""
           /\ Summaries(calls[i].episodes) = ScenarioExpected

----------------------------------------------------------------------------
(* the episode numbers the documents of the model can lead to: those their *)
(* keys truncate to, those their keys match by suffix, and neighbours      *)
CheckedNumbers == 0..3 \cup {10, 100}

LabelsOf(doc) == { TextOf(doc[i], "DVD_season") : i \in 1..Len(doc) } \ {None}

(* the records of doc that the suffix rule accepts for (s, n) and that     *)
(* have a title                                                            *)
TitledMatches(doc, s, n) ==
    { i \in 1..Len(doc) :
        /\ TextOf(doc[i], "DVD_season") = s
        /\ SuffixMatch(TextOf(doc[i], "DVD_episodenumber"), n)
        /\ TextOf(doc[i], "EpisodeName") # None }

UntitledMatches(doc, s, n) ==
    { i \in 1..Len(doc) :
        /\ TextOf(doc[i], "DVD_season") = s
        /\ SuffixMatch(TextOf(doc[i], "DVD_episodenumber"), n)
        /\ TextOf(doc[i], "EpisodeName") = None }

(* n is the integer truncation of the key of some record of doc *)
IsCandidate(doc, n) ==
    \E i \in 1..Len(doc) :
        LET key == TextOf(doc[i], "DVD_episodenumber")
        IN  FloatParses(key) /\ IntOfFloat(key) = n

EpisodesFor(episodes, s, n) ==
    { j \in 1..Len(episodes) :
        /\ TextOf(episodes[j], "SeasonNumber") = s
        /\ TextOf(episodes[j], "EpisodeNumber") = str(n) }

(* every merged episode is the episode of a pair the property ranges over *)
PairsCovered(c) ==
    \A j \in 1..Len(c.episodes) :
        \E s \in LabelsOf(c.arg.episodes), n \in CheckedNumbers :
            j \in EpisodesFor(c.episodes, s, n)

(* the values only records without a title carry *)
UntitledAtoms == {"orphan", "Ghost", "P0", "9"}

(* no merged field of the episode has anything of a record without title:  *)
(* the named records of the model all have the flag "0", the unnamed "1"   *)
FreeOfUntitled(episode) ==
    /\ \A k \in 1..Len(episode) :
          episode[k].tag \notin {"SeasonNumber", "EpisodeNumber"}
          => \A a \in 1..Len(episode[k].text) : episode[k].text[a] \notin UntitledAtoms
    /\ TextOf(episode, "EpisodeName") # None
    /\ TextOf(episode, "EpImgFlag") = T("0")

----------------------------------------------------------------------------
(* the non-absent values the members of the group have for a field *)
MemberValues(parts, tag) ==
    { TextOf(EpNode(parts[i]), tag) :
        i \in { k \in 1..Len(parts) : Has(EpNode(parts[k]), tag) } } \ {None}

(* C3: for a field of the single-value fallback, the merged value is one   *)
(* of the members' non-absent values when there is one, and is empty text  *)
(* only when no member has a non-absent value.                             *)
C3_SingleEntryIsMemberValue ==
    agg.fn = "retrieve_single_entry"
    => LET values == MemberValues(episode_parts, agg.tag)
       IN  /\ values # {} => agg.data \in values
           /\ agg.data = EmptyText => values = {}

(* the field is missing from a member, or its text is absent or (for the   *)
(* average) is no number                                                   *)
Degraded(parts, tag) ==
    \E i \in 1..Len(parts) :
        \/ ~Has(EpNode(parts[i]), tag)
        \/ TextOf(EpNode(parts[i]), tag) = None
        \/ tag = "Rating" /\ ~FloatParses(TextOf(EpNode(parts[i]), tag))

(* C4: every aggregation function returns a value and never raises, also   *)
(* when the element is missing from a member or its text is absent or      *)
(* unparsable; the result is then empty text for list and single-value     *)
(* fields and "0" for average and flag fields.                             *)
C4_AggregatorsNeverRaise ==
    agg.fn # ""
    => /\ agg.exc = ""
       /\ (agg.tag # "" /\ Degraded(episode_parts, agg.tag))
          => agg.data = IF agg.fn \in {"compile_piped_list", "retrieve_single_entry"}
                        THEN EmptyText ELSE T("0")

----------------------------------------------------------------------------
(* C5: if the release-episode key of a record is present but is no number, *)
(* create_dvd_tree still returns an output document; the parse failure is  *)
(* not propagated to the caller.                                           *)
C5_UnparsableKeyNoError ==
    \A i \in MadeCalls :
        LET doc == calls[i].arg.episodes IN
        (\E k \in 1..Len(doc) :
            LET key == TextOf(doc[k], "DVD_episodenumber")
            IN  key # None /\ ~FloatParses(key))
        => calls[i].exc = ""

(* the position of the first record of doc with season label s *)
FirstSeen(doc, s) ==
    CHOOSE i \in 1..Len(doc) :
        /\ TextOf(doc[i], "DVD_season") = s
        /\ \A j \in 1..(i - 1) : TextOf(doc[j], "DVD_season") # s

(* C6: the merged episodes are ordered by season, the seasons in the order *)
(* in which their labels are first seen in the source, and within a season *)
(* by ascending numeric episode number.                                    *)
C6_SeasonDiscoveryOrder ==
    \A i \in ReturnedCalls :
        LET eps == calls[i].episodes
            doc == calls[i].arg.episodes
            season(j) == TextOf(eps[j], "SeasonNumber")
            number(j) == IntOfFloat(TextOf(eps[j], "EpisodeNumber"))
        IN  \A a, b \in 1..Len(eps) :
                a < b => \/ FirstSeen(doc, season(a)) < FirstSeen(doc, season(b))
                         \/ season(a) = season(b) /\ number(a) < number(b)

(* C7: two invocations of create_dvd_tree on equal source documents return *)
(* equal output documents.                                                 *)
C7_Deterministic ==
    \A i, j \in 1..Len(calls) :
        calls[i].arg = calls[j].arg
        => /\ calls[i].exc = calls[j].exc
           /\ calls[i].episodes = calls[j].episodes
           /\ calls[i].series = calls[j].series

----------------------------------------------------------------------------
(* a step of create_dvd_tree that returned *)
ReturnStep == Len(calls') > Len(calls) /\ calls'[Len(calls')].exc = ""

Changed(ids) == \E id \in ids : heap'[id] # heap[id]

(* C8: the series node of the output equals the source's at the time of    *)
(* the call and shares no node with it: a later change below the source's  *)
(* series node leaves the output's unchanged, and the other way round.     *)
C8_SeriesIsIndependentClone ==
    [][ /\ ReturnStep
           => /\ Value(heap', dvdroot'.series) = Value(heap, showtree.series)
              /\ Reach(heap', dvdroot'.series) \cap Reach(heap', showtree'.series) = {}
        /\ (calls' = calls /\ dvdroot # NoTree)
           => /\ Changed(Reach(heap, showtree.series))
                 => Value(heap', dvdroot.series) = Value(heap, dvdroot.series)
              /\ Changed(Reach(heap, dvdroot.series))
                 => Value(heap', showtree.series) = Value(heap, showtree.series)
      ]_vars

(* a tree was returned, and the two series nodes have since diverged in    *)
(* the SeriesName child                                                    *)
C8_Witness ==
    /\ dvdroot # NoTree
    /\ Value(heap, dvdroot.series).kids # Value(heap, showtree.series).kids

(* C9: create_dvd_tree leaves the source document unchanged: its episode   *)
(* nodes (an absent overview stays absent) and its series node.            *)
C9_SourceUnchanged ==
    [][ Len(calls') > Len(calls) => SourceValue' = SourceValue ]_vars

(* a call merged several members, one of them without overview, and the    *)
(* source still has that record without overview                           *)
C9_Witness ==
    \E i \in ReturnedCalls :
        \E j \in 1..Len(calls[i].episodes) :
            LET overview == TextOf(calls[i].episodes[j], "Overview")
            IN  /\ Len(overview) > 1
                /\ overview[Len(overview)] = ":\n"
                /\ \E k \in 1..Len(showtree.episodes) :
                      /\ TextOf(showtree.episodes[k], "EpisodeName") # None
                      /\ TextOf(showtree.episodes[k], "Overview") = None

(* C10: the merged title of a group of two or more members is the members' *)
(* titles joined with " | " in the order of the members in the source,     *)
(* whatever the fractional suffix of their keys.                           *)
C10_TitleInSourceOrder ==
    \A i \in ReturnedCalls :
        LET doc == calls[i].arg.episodes
            eps == calls[i].episodes
        IN  \A j \in 1..Len(eps) :
              LET members == SortedInts(
                      { k \in 1..Len(doc) :
                          /\ TextOf(doc[k], "DVD_season") = TextOf(eps[j], "SeasonNumber")
                          /\ DropLast2(IF TextOf(doc[k], "DVD_episodenumber") = None
                                       THEN EmptyText
                                       ELSE TextOf(doc[k], "DVD_episodenumber"))
                             = TextOf(eps[j], "EpisodeNumber")
                          /\ TextOf(doc[k], "EpisodeName") # None })
                  title == TextOf(eps[j], "EpisodeName")
              IN  Len(members) >= 2
                  => /\ Len(title) = 2 * Len(members) - 1
                     /\ \A m \in 1..Len(members) :
                           /\ <<title[2 * m - 1]>> = TextOf(doc[members[m]], "EpisodeName")
                           /\ m < Len(members) => title[2 * m] = " | "

(* a record keyed "1.1" precedes a record keyed "1.0" of the same season,  *)
(* and the title of their merged episode names it first                    *)
C10_Witness ==
    \E i \in ReturnedCalls :
        LET doc == calls[i].arg.episodes IN
        /\ Len(doc) >= 2
        /\ TextOf(doc[1], "DVD_episodenumber") = Key("1", ".", "1")
        /\ TextOf(doc[2], "DVD_episodenumber") = Key("1", ".", "0")
        /\ \E j \in 1..Len(calls[i].episodes) :
              /\ TextOf(calls[i].episodes[j], "EpisodeName") = <<"Beta", " | ", "Alpha">>
              /\ TextOf(calls[i].episodes[j], "EpisodeNumber") = T("1")

----------------------------------------------------------------------------
(* The aggregators on one group (SpecAgg): the members of the group are    *)
(* the episodes of the document, in order                                  *)

Member(i) == showtree.episodes[i]

GroupSize == Len(showtree.episodes)

(* "<title>:\n<overview>" of member i, an absent overview as empty text *)
OverviewPiece(i) ==
    TextOf(Member(i), "EpisodeName") \o T(":\n")
        \o (IF TextOf(Member(i), "Overview") = None
            THEN EmptyText ELSE TextOf(Member(i), "Overview"))

RECURSIVE OverviewFrom(_)
OverviewFrom(i) ==
    IF i >= GroupSize THEN OverviewPiece(i)
    ELSE OverviewPiece(i) \o T("\n") \o OverviewFrom(i + 1)

AlphaThenBeta ==
    /\ GroupSize = 2
    /\ TextOf(Member(1), "EpisodeName") = T("Alpha")
    /\ TextOf(Member(1), "Overview") = T("first")
    /\ TextOf(Member(2), "EpisodeName") = T("Beta")
    /\ TextOf(Member(2), "Overview") = None

(* C11: for a group of two or more members create_episode_overview returns *)
(* "<title>:\n<overview>" of each member, an absent overview taken as      *)
(* empty text, joined with "\n" in member order; Alpha/"first" and Beta    *)
(* without overview give "Alpha:\nfirst\nBeta:\n".                         *)
C11_OverviewOfSeveralMembers ==
    (agg.fn = "create_episode_overview" /\ GroupSize >= 2)
    => /\ agg.exc = ""
       /\ agg.data = OverviewFrom(1)
       /\ AlphaThenBeta
          => agg.data = <<"Alpha", ":\n", "first", "\n", "Beta", ":\n">>

C11_Witness ==
    /\ agg.fn = "create_episode_overview"
    /\ AlphaThenBeta
    /\ agg.data = <<"Alpha", ":\n", "first", "\n", "Beta", ":\n">>

(* C12: for a group of exactly one member create_episode_title returns the *)
(* member's title and create_episode_overview returns the member's         *)
(* overview as it is, without prefix or separator; an absent overview      *)
(* stays absent and is not turned into empty text.                         *)
C12_SingleMemberVerbatim ==
    GroupSize = 1
    => /\ agg.fn = "create_episode_title"
          => agg.data = TextOf(Member(1), "EpisodeName")
       /\ agg.fn = "create_episode_overview"
          => /\ agg.data = TextOf(Member(1), "Overview")
             /\ TextOf(Member(1), "Overview") = None => agg.data # EmptyText

C12_Witness ==
    /\ GroupSize = 1
    /\ agg.fn = "create_episode_overview"
    /\ TextOf(Member(1), "EpisodeName") = T("Beta")
    /\ TextOf(Member(1), "Overview") = None
    /\ agg.data = None

(* every member has the element and its text is not absent *)
AllPresent(tag) ==
    \A i \in 1..GroupSize : Has(Member(i), tag) /\ TextOf(Member(i), tag) # None

(* the items between the "|" of the members' texts, without the empty     *)
(* item and without the item "None"                                       *)
ListItems(tag) ==
    UNION { { TextOf(Member(i), tag)[k] : k \in 1..Len(TextOf(Member(i), tag)) } :
            i \in 1..GroupSize } \ {"|", "None"}

(* data is "|" a1 "|" a2 "|" ... "|" with a1 < a2 < ... the items *)
IsPipedListOf(data, items) ==
    /\ Len(data) = 2 * Cardinality(items) + 1
    /\ \A m \in 1..Len(data) : m % 2 = 1 => data[m] = "|"
    /\ { data[2 * m] : m \in 1..Cardinality(items) } = items
    /\ \A m \in 1..(Cardinality(items) - 1) :
          AtomRank(data[2 * m]) < AtomRank(data[2 * m + 2])

(* C13: when every member has a non-absent Director text,                  *)
(* compile_piped_list returns "|" + the members' "|"-separated items       *)
(* without duplicates, without empty items and without the item "None",    *)
(* in ascending order and joined by "|" + "|", and the empty text when no  *)
(* item remains; "Smith|Jones" and "Jones|" give "|Jones|Smith|".          *)
C13_PipedListUnion ==
    (agg.fn = "compile_piped_list" /\ AllPresent("Director"))
    => /\ ListItems("Director") = {} => agg.data = EmptyText
       /\ ListItems("Director") # {} => IsPipedListOf(agg.data, ListItems("Director"))
       /\ ( /\ GroupSize = 2
            /\ TextOf(Member(1), "Director") = <<"Smith", "|", "Jones">>
            /\ TextOf(Member(2), "Director") = <<"Jones", "|">> )
          => agg.data = <<"|", "Jones", "|", "Smith", "|">>

C13_Witness ==
    /\ agg.fn = "compile_piped_list"
    /\ GroupSize = 2
    /\ Has(Member(1), "Director") /\ Has(Member(2), "Director")
    /\ TextOf(Member(1), "Director") = <<"Smith", "|", "Jones">>
    /\ TextOf(Member(2), "Director") = <<"Jones", "|">>
    /\ agg.data = <<"|", "Jones", "|", "Smith", "|">>

(* the group is one member whose Director text is what compile_piped_list  *)
(* returned last                                                           *)
OutputRegrouped ==
    /\ agg.fn = "compile_piped_list"
    /\ GroupSize = 1
    /\ Has(Member(1), "Director")
    /\ TextOf(Member(1), "Director") = agg.data

(* C14: compile_piped_list is idempotent: called on a group of one member  *)
(* whose Director text is its own output, the empty text included, it      *)
(* returns that text again.                                                *)
C14_PipedListIdempotent ==
    [][ (OutputRegrouped /\ showtree' = showtree /\ agg'.fn = "compile_piped_list")
        => agg'.data = agg.data ]_vars

(* the merged episode of Alpha and Beta is the group, and its Director     *)
(* text is returned unchanged                                              *)
C14_Witness ==
    /\ OutputRegrouped
    /\ TextOf(Member(1), "EpisodeName") = <<"Alpha", " | ", "Beta">>
    /\ agg.data = <<"|", "Jones", "|", "Smith", "|">>

C14_WitnessEmpty ==
    /\ OutputRegrouped
    /\ TextOf(Member(1), "EpisodeName") = <<"Alpha", " | ", "Beta">>
    /\ agg.data = EmptyText

(* every member has a Rating text that float() parses *)
AllParse(tag) ==
    \A i \in 1..GroupSize : Has(Member(i), tag) /\ FloatParses(TextOf(Member(i), tag))

(* the sum of the members' values, in thousandths *)
RECURSIVE RatingSum(_)
RatingSum(i) ==
    IF i > GroupSize THEN 0 ELSE Milli(TextOf(Member(i), "Rating")) + RatingSum(i + 1)

(* the mean of the members is a decimal of at most three places that a     *)
(* double holds exactly                                                    *)
MeanIsExact ==
    /\ RatingSum(1) % GroupSize = 0
    /\ (RatingSum(1) \div GroupSize) % 125 = 0

(* C15: when every member's Rating text parses as a number,                *)
(* get_average_value returns the decimal text of the arithmetic mean       *)
(* ("8.0" and "9.0" give "8.5"); when the field is absent or unparsable on *)
(* one member at least it returns exactly "0", never a mean of the other   *)
(* members.                                                                *)
C15_RatingMean ==
    agg.fn = "get_average_value"
    => /\ agg.exc = ""
       /\ ~AllParse("Rating") => agg.data = T("0")
       /\ AllParse("Rating")
          => /\ agg.data # T("0")
             /\ MeanIsExact
                => /\ FloatParses(agg.data)
                   /\ DotPos(agg.data) > 0
                   /\ Milli(agg.data) * GroupSize = RatingSum(1)
       /\ ( /\ GroupSize = 2
            /\ AllParse("Rating")
            /\ TextOf(Member(1), "Rating") = Key("8", ".", "0")
            /\ TextOf(Member(2), "Rating") = Key("9", ".", "0") )
          => agg.data = Key("8", ".", "5")

C15_Witness ==
    /\ agg.fn = "get_average_value"
    /\ GroupSize = 2
    /\ AllParse("Rating")
    /\ TextOf(Member(1), "Rating") = Key("8", ".", "0")
    /\ TextOf(Member(2), "Rating") = Key("9", ".", "0")
    /\ agg.data = Key("8", ".", "5")

(* one member parses, the other has no Rating: the result is "0" *)
C15_WitnessDegraded ==
    /\ agg.fn = "get_average_value"
    /\ GroupSize = 2
    /\ Has(Member(1), "Rating") /\ TextOf(Member(1), "Rating") = Key("8", ".", "0")
    /\ ~Has(Member(2), "Rating")
    /\ agg.data = T("0")

(* C16: get_boolean_flag returns "1" exactly when the EpImgFlag of one     *)
(* member at least is "1" and "0" otherwise, also when the field is absent *)
(* on some or all members.                                                 *)
C16_FlagIsOr ==
    agg.fn = "get_boolean_flag"
    => /\ agg.exc = ""
       /\ agg.data = IF \E i \in 1..GroupSize :
                            /\ Has(Member(i), "EpImgFlag")
                            /\ TextOf(Member(i), "EpImgFlag") = T("1")
                     THEN T("1") ELSE T("0")

----------------------------------------------------------------------------
(* create_dvd_tree on a document (Spec): the fields of a merged episode    *)

KeysParse(doc) ==
    \A k \in 1..Len(doc) :
        \/ TextOf(doc[k], "DVD_episodenumber") = None
        \/ FloatParses(TextOf(doc[k], "DVD_episodenumber"))

(* the first member of the group (s, n): the first record the suffix rule  *)
(* accepts and that has a title                                            *)
FirstMember(doc, s, n) ==
    doc[CHOOSE i \in TitledMatches(doc, s, n) :
            \A k \in TitledMatches(doc, s, n) : i <= k]

FieldNames ==
    {"DVD_season", "DVD_episodenumber", "Director", "Writer", "GuestStars",
     "Rating", "EpImgFlag", "ProductionCode"}

Emitted(episode, tag) ==
    Cardinality({ k \in 1..Len(episode) : episode[k].tag = tag })

(* C17: a field other than title, season, episode number and overview that *)
(* the first member of a group lacks (Director, Writer, GuestStars, Rating *)
(* and EpImgFlag included) is not emitted on the merged episode;           *)
(* create_dvd_tree still returns, and every merged episode has exactly one *)
(* value for each field its group's first member has.                      *)
C17_FirstMemberFieldsOnly ==
    \A i \in MadeCalls :
        LET c == calls[i]
            doc == c.arg.episodes
        IN  (KeysParse(doc)
             /\ \A k \in 1..Len(doc) : Has(doc[k], "SeasonNumber")
                                       /\ Has(doc[k], "EpisodeNumber"))
            => /\ c.exc = ""
               /\ \A j \in 1..Len(c.episodes) :
                     \E s \in LabelsOf(doc), n \in CheckedNumbers :
                        /\ j \in EpisodesFor(c.episodes, s, n)
                        /\ TitledMatches(doc, s, n) # {}
                        /\ \A tag \in FieldNames :
                              Emitted(c.episodes[j], tag) =
                                 IF Has(FirstMember(doc, s, n), tag) THEN 1 ELSE 0

----------------------------------------------------------------------------
(* The variant of lines 91-152 that takes the candidate numbers of a       *)
(* season from the keys of the records of that season only                 *)

SeasonKeys(seasonnum) ==
    { TextOf(showtree.episodes[i], "DVD_episodenumber") :
        i \in { k \in 1..Len(showtree.episodes) :
                  /\ Has(showtree.episodes[k], "DVD_season")
                  /\ TextOf(showtree.episodes[k], "DVD_season") = seasonnum
                  /\ Has(showtree.episodes[k], "DVD_episodenumber") } } \ {None}

RECURSIVE BuildPerSeason(_, _, _, _)
AfterSeasonPerSeason(order, i, season) ==
    IF season.exc # "" THEN season
    ELSE BuildPerSeason(order, i + 1, season.data, season.writes)

BuildPerSeason(order, i, acc, writes) ==
    IF i > Len(order) THEN Outcome("", acc, writes)
    ELSE IF \E k \in SeasonKeys(order[i]) : ~FloatParses(k)
    THEN Outcome("ValueError", <<>>, writes)
    ELSE AfterSeasonPerSeason(order, i,
            SeasonFrom(order[i],
                       SortedInts({ IntOfFloat(k) : k \in SeasonKeys(order[i]) }),
                       1, acc, writes))

Result(outcome) == [exc |-> outcome.exc, episodes |-> outcome.data]

(* C18: taking the candidate episode numbers of each season from the keys  *)
(* of the records of that season only, instead of from the keys of the     *)
(* whole collection, gives the same output document as create_dvd_tree,    *)
(* for every source collection.                                            *)
C18_PerSeasonCandidatesSame ==
    \A i \in MadeCalls :
        calls[i].arg.episodes = showtree.episodes
        => \A order \in IterationOrders(get_element_texts("DVD_season")) :
              Result(BuildPerSeason(order, 1, <<>>, <<>>)) = Result(create_dvd_tree(order))

----------------------------------------------------------------------------
(* key is "n.d": n in decimal without sign and leading zeros, d one digit *)
OneDigitFraction(key) ==
    /\ key # None
    /\ Len(key) >= 3
    /\ key[Len(key) - 1] = "."
    /\ IsDigit(key[Len(key)])
    /\ AllDigits(SubSeq(key, 1, Len(key) - 2))
    /\ (Len(key) = 3 \/ key[1] # "0")

(* key is a number whose fractional part has two or more digits *)
LongFraction(key) ==
    /\ key # None
    /\ \E p \in 2..(Len(key) - 2) :
          /\ key[p] = "."
          /\ AllDigits(SubSeq(key, 1, p - 1))
          /\ AllDigits(SubSeq(key, p + 1, Len(key)))

(* the record has every element the merge reads *)
Complete(item) ==
    \A tag \in {"DVD_season", "DVD_episodenumber", "EpisodeName", "Overview",
                 "SeasonNumber", "EpisodeNumber", "Director", "Writer",
                 "GuestStars", "Rating", "EpImgFlag"} : Has(item, tag)

Titled(item) ==
    TextOf(item, "EpisodeName") # None /\ TextOf(item, "DVD_season") # None

(* C19: a titled record with season label s and a key "n.d" (n without     *)
(* leading zeros, d one digit) is a member of the group (s, n) and of no   *)
(* other group; a record whose key has a fractional part of two or more    *)
(* digits ("3.10") is a member of no group and is absent from the output,  *)
(* and create_dvd_tree returns without error.                              *)
C19_FractionalKeys ==
    \A i \in MadeCalls :
        LET c == calls[i]
            doc == c.arg.episodes
            key(k) == TextOf(doc[k], "DVD_episodenumber")
            season(k) == TextOf(doc[k], "DVD_season")
        IN  /\ ( /\ \E k \in 1..Len(doc) : LongFraction(key(k))
                 /\ KeysParse(doc)
                 /\ \A k \in 1..Len(doc) : Complete(doc[k]) )
               => c.exc = ""
            /\ c.exc = ""
               => /\ \A k \in 1..Len(doc) :
                        (Titled(doc[k]) /\ OneDigitFraction(key(k)))
                        => LET n == DigitsVal(SubSeq(key(k), 1, Len(key(k)) - 2)) IN
                           /\ n \in CheckedNumbers
                           /\ \A m \in CheckedNumbers :
                                 k \in TitledMatches(doc, season(k), m) <=> m = n
                           /\ \E j \in 1..Len(c.episodes) :
                                 /\ EpisodesFor(c.episodes, season(k), n) = {j}
                                 /\ InSeq(TextOf(doc[k], "EpisodeName")[1],
                                          TextOf(c.episodes[j], "EpisodeName"))
                  /\ \A k \in 1..Len(doc) :
                        LongFraction(key(k))
                        => \A s \in LabelsOf(doc), m \in CheckedNumbers :
                              k \notin TitledMatches(doc, s, m)
                  /\ (\A k \in 1..Len(doc) : Titled(doc[k]) => LongFraction(key(k)))
                     => c.episodes = <<>>

(* a call on a record keyed "3.10" and a record keyed "n.d" returned the   *)
(* episode of the second only                                              *)
C19_Witness ==
    \E i \in ReturnedCalls :
        LET c == calls[i]
            doc == c.arg.episodes
        IN  /\ Len(doc) = 2
            /\ TextOf(doc[1], "DVD_episodenumber") = <<"3", ".", "1", "0">>
            /\ Titled(doc[1])
            /\ TextOf(doc[2], "DVD_episodenumber") = Key("1", ".", "1")
            /\ TextOf(doc[2], "EpisodeName") = T("Beta")
            /\ Len(c.episodes) = 1
            /\ TextOf(c.episodes[1], "EpisodeNumber") = T("1")
            /\ TextOf(c.episodes[1], "EpisodeName") = T("Beta")

----------------------------------------------------------------------------
(* Lookups (SpecLookup) *)

LevelException(level, key) ==
    IF level = "Season" THEN "TvdbEpisodeNotFound"
    ELSE IF level = "Episode" THEN "TvdbAttributeNotFound"
    ELSE IF key.isint \/ (Len(key.text) > 0 /\ AllDigits(key.text))
    THEN "TvdbSeasonNotFound"
    ELSE "TvdbAttributeNotFound"

(* the dict the lookup was made in, and the kind of what it holds *)
LookedIn ==
    IF lookup.level = "Show" THEN show.seasons
    ELSE IF lookup.level = "Season" THEN show.seasons[lookup.season]
    ELSE show.seasons[lookup.season][lookup.episode]

(* C20: a lookup of a key that is not present raises the exception of its  *)
(* level and never KeyError: Show[key] raises TvdbSeasonNotFound for an    *)
(* int or an all-digit string and TvdbAttributeNotFound for another        *)
(* string, Season[n] raises TvdbEpisodeNotFound, Episode[attr] raises      *)
(* TvdbAttributeNotFound.  A present key gives the stored value, and in a  *)
(* Show a season key goes before a key of the show data.                   *)
C20_LookupExceptions ==
    lookup.level # ""
    => /\ lookup.exc # "KeyError"
       /\ lookup.key \in DOMAIN LookedIn
          => /\ lookup.exc = ""
             /\ lookup.data.kind = IF lookup.level = "Show" THEN "Season"
                                   ELSE IF lookup.level = "Season" THEN "Episode"
                                   ELSE "value"
             /\ lookup.level = "Episode" => lookup.data.text = LookedIn[lookup.key]
             /\ lookup.level # "Episode" => lookup.data.dict = LookedIn[lookup.key]
       /\ lookup.key \notin DOMAIN LookedIn
          => IF lookup.level = "Show" /\ lookup.key \in DOMAIN show.data
             THEN /\ lookup.exc = ""
                  /\ lookup.data = Stored(show.data[lookup.key])
             ELSE lookup.exc = LevelException(lookup.level, lookup.key)

(* the Show has a season and a data entry under the key "1", and show["1"] *)
(* gave the season                                                         *)
C20_Witness ==
    /\ lookup.level = "Show"
    /\ lookup.key = StrKey(T("1"))
    /\ lookup.key \in DOMAIN show.seasons
    /\ lookup.key \in DOMAIN show.data
    /\ lookup.exc = ""
    /\ lookup.data.kind = "Season"

(* show[42] and show["42"] raised TvdbSeasonNotFound *)
C20_WitnessSeasonNotFound ==
    /\ lookup.level = "Show"
    /\ lookup.key \in {IntKey(42), StrKey(<<"4", "2">>)}
    /\ DOMAIN show.seasons # {}
    /\ lookup.exc = "TvdbSeasonNotFound"

----------------------------------------------------------------------------
(* ShowContainer (SpecCache) *)

Elements(seq) == { seq[i] : i \in 1..Len(seq) }

(* C26: every assignment to a ShowContainer completes, also of a key that  *)
(* is already present, and an assignment made more than 20 seconds after   *)
(* the last collection leaves exactly the keys of the latest 100           *)
(* assignments in the container, the key just assigned among them, with    *)
(* the key stack and the stored keys in agreement.                         *)
C26_BoundedRecencyCache ==
    \A i \in MadeCalls :
        /\ calls[i].exc = ""
        /\ calls[i].stale
           => /\ DOMAIN tvdb.shows.dict =
                    Elements(LastOf(Append(calls[i].stack, calls[i].arg), Latest))
              /\ Cardinality(DOMAIN tvdb.shows.dict) <= Latest
              /\ calls[i].arg \in DOMAIN tvdb.shows.dict
              /\ Elements(tvdb.shows.stack) = DOMAIN tvdb.shows.dict

----------------------------------------------------------------------------
(* create_dvd_tree: the keys of the records of a merged episode (Spec) *)

(* C28: whenever create_dvd_tree returns, every source record merged into  *)
(* the output episode numbered n of a season has a key that parses as a    *)
(* number whose integer truncation is n.                                   *)
C28_MergedKeysTruncateToNumber ==
    \A i \in ReturnedCalls :
        LET c == calls[i]
            doc == c.arg.episodes
        IN  \A s \in LabelsOf(doc), n \in CheckedNumbers :
                EpisodesFor(c.episodes, s, n) # {}
                => \A k \in TitledMatches(doc, s, n) :
                       /\ FloatParses(TextOf(doc[k], "DVD_episodenumber"))
                       /\ IntOfFloat(TextOf(doc[k], "DVD_episodenumber")) = n

----------------------------------------------------------------------------
(* ConsoleUI.select_series (SpecUI) *)

LastAnswer == ui.asked[Len(ui.asked)]

(* C30: with more than one result and select_first off, an answer that is  *)
(* the number n returns all_series[n-1] when 1 <= n <= len(all_series) and *)
(* is reported invalid, with the prompt repeated, for every other number;  *)
(* an empty answer returns the first series; 'q', EOF and a keyboard       *)
(* interrupt raise TvdbUserAbort; any other text repeats the prompt.       *)
C30_OnlyValidChoiceReturns ==
    ui.asked # <<>>
    => IF LastAnswer \in {EOF, Interrupt, <<"q">>}
       THEN ui.pc = "raised" /\ ui.exc = "TvdbUserAbort"
       ELSE IF IntParses(LastAnswer)
       THEN IF 1 <= IntOf(LastAnswer) /\ IntOf(LastAnswer) <= Len(ui.all_series)
            THEN ui.pc = "returned" /\ ui.data = ui.all_series[IntOf(LastAnswer)]
            ELSE ui.pc = "prompt" /\ ui.printed = "Invalid number (%s) selected!"
       ELSE IF strip(LastAnswer) = <<>>
       THEN ui.pc = "returned" /\ ui.data = ui.all_series[1]
       ELSE ui.pc = "prompt" /\ ui.printed # "Invalid number (%s) selected!"

----------------------------------------------------------------------------
(* Searches (SpecSearch) *)

SearchLevels == {"Show.search", "Season.search", "Episode.search"}

(* C22: Show.search, Season.search and Episode.search without a search     *)
(* term raise TypeError, for every show, whatever seasons and episodes it  *)
(* holds.                                                                  *)
C22_NoTermRaisesTypeError ==
    lookup.level \in SearchLevels /\ lookup.term = None => lookup.exc = "TypeError"

(* the episode has an attribute (the one named key, when key is given)     *)
(* whose value, as lower-case text, contains the lower-case term           *)
Matches(episode, term, key) ==
    \E a \in DOMAIN episode :
        /\ key = None \/ a.text = key
        /\ Contains(lower(str_value(episode[a])), lower(term))

MatchingEpisodes(self, term, key) ==
    { slot \in SearchSlots :
        /\ slot[1] \in DOMAIN self.seasons
        /\ slot[2] \in DOMAIN self.seasons[slot[1]]
        /\ Matches(self.seasons[slot[1]][slot[2]], term, key) }

NoDuplicates(seq) == \A i, j \in 1..Len(seq) : seq[i] = seq[j] => i = j

(* C23: Show.search(term, key) returns a list that holds each episode with *)
(* a matching attribute exactly once and no other episode, and             *)
(* Show.aired_on raises TvdbEpisodeNotFound exactly when the list of its   *)
(* search is empty, and returns that list otherwise.                       *)
C23_SearchReturnsMatches ==
    /\ lookup.level = "Show.search" /\ lookup.term # None
       => /\ lookup.exc = ""
          /\ NoDuplicates(lookup.data)
          /\ Elements(lookup.data) = MatchingEpisodes(show, lookup.term, lookup.key)
    /\ lookup.level = "Show.aired_on"
       => IF MatchingEpisodes(show, lookup.term, T("firstAired")) = {}
          THEN lookup.exc = "TvdbEpisodeNotFound"
          ELSE /\ lookup.exc = ""
               /\ NoDuplicates(lookup.data)
               /\ Elements(lookup.data) =
                     MatchingEpisodes(show, lookup.term, T("firstAired"))

(* two of three episodes match a term in another case than the values *)
C23_Witness ==
    /\ lookup.level = "Show.search"
    /\ lookup.term = <<"m", "y">>
    /\ lookup.key = None
    /\ Len(lookup.data) = 2
    /\ Cardinality(AttributesOf(show)) = 3
    /\ DOMAIN show.seasons = {IntKey(1), IntKey(2)}

C23_WitnessNotAired ==
    /\ lookup.level = "Show.aired_on"
    /\ lookup.exc = "TvdbEpisodeNotFound"
    /\ lookup.term = OtherDate
    /\ \E slot \in SearchSlots :
          /\ slot[1] \in DOMAIN show.seasons
          /\ slot[2] \in DOMAIN show.seasons[slot[1]]
          /\ StrKey(T("firstAired")) \in DOMAIN show.seasons[slot[1]][slot[2]]

----------------------------------------------------------------------------
(* Tvdb (SpecTvdb) *)

FakeShow == StrKey(T("the fake show thingy"))

LastRequest == net.log[Len(net.log)]

(* C21: tvdb[name] for a name whose search has no result raises            *)
(* TvdbShowNotFound, and the failed lookup leaves the corrections and the  *)
(* shows of the instance as they were.                                     *)
C21_ShowNotFoundLeavesNoTrace ==
    \A i \in MadeCalls :
        LET c == calls[i]
        IN  c.arg = FakeShow
            => /\ c.exc # ""
               /\ ( /\ Len(net.log) > c.requests
                    /\ LastRequest.method = "GET"
                    /\ LastRequest.error = ResourceNotFound )
                  => c.exc = "TvdbShowNotFound"
               /\ tvdb.corrections = c.before.corrections
               /\ tvdb.shows = c.before.shows

C21_Witness ==
    \E i \in MadeCalls :
        /\ calls[i].arg = FakeShow
        /\ calls[i].exc = "TvdbShowNotFound"
        /\ DOMAIN tvdb.corrections = {T("Scrubs")}
        /\ DOMAIN tvdb.shows.dict = {1}

(* C24: every season of a show of the instance has that show as its show,  *)
(* every episode of the season has that season as its season; the shows    *)
(* are distinct objects.                                                   *)
C24_ParentLinks ==
    \A sid \in DOMAIN tvdb.shows.dict :
        LET S == tvdb.shows.dict[sid]
        IN  /\ \A other \in DOMAIN tvdb.shows.dict :
                  tvdb.shows.dict[other].oid = S.oid => other = sid
            /\ \A seas \in DOMAIN S.seasons :
                  /\ S.seasons[seas].show = S.oid
                  /\ \A ep \in DOMAIN S.seasons[seas].episodes :
                        S.seasons[seas].episodes[ep].season = S.seasons[seas].oid

C24_Witness ==
    /\ DOMAIN tvdb.shows.dict = {1, 2}
    /\ DOMAIN tvdb.shows.dict[1].seasons = {IntKey(1), IntKey(2)}
    /\ Cardinality(DOMAIN tvdb.shows.dict[1].seasons[IntKey(1)].episodes) = 2

(* the numbers a record is to be stored under *)
Chosen(rec, dvdorder) ==
    IF dvdorder /\ rec.dvdSeason # JsonNull /\ rec.dvdEpisodeNumber # JsonNull
    THEN <<rec.dvdSeason, rec.dvdEpisodeNumber>>
    ELSE <<rec.airedSeason, rec.airedEpisodeNumber>>

(* the places of the show where the attributes of the record are *)
Places(S, rec) ==
    UNION { { <<seas, ep>> : ep \in { e \in DOMAIN S.seasons[seas].episodes :
                \A t \in 1..Len(RecordTags) :
                    /\ StrKey(T(RecordTags[t])) \in DOMAIN S.seasons[seas].episodes[e].attrs
                    /\ S.seasons[seas].episodes[e].attrs[StrKey(T(RecordTags[t]))]
                          = rec[RecordTags[t]] } }
            : seas \in DOMAIN S.seasons }

EpisodesStored(S, dvdorder) ==
    \A k \in 1..Len(EpisodeRecords) :
        Places(S, EpisodeRecords[k]) =
            IF JsonNull \in Elements(Chosen(EpisodeRecords[k], dvdorder)) THEN {}
            ELSE {Chosen(EpisodeRecords[k], dvdorder)}

(* the call requested the url *)
Requested(c, url) ==
    \E j \in (c.requests + 1)..Len(net.log) : net.log[j].url = url

(* C25: after a load that fetched the episodes, each record is stored      *)
(* under its DVD season and episode number when dvdorder is set and both   *)
(* are not null, under its aired numbers otherwise; a record whose numbers *)
(* so chosen are not both there is stored nowhere, and the records after   *)
(* it are stored.                                                          *)
C25_EpisodeNumbering ==
    \A i \in ReturnedCalls :
        Requested(calls[i], EpisodesUrl(1)) => EpisodesStored(tvdb.shows.dict[1], tvdb.dvdorder)

C25_Witness ==
    \E i \in ReturnedCalls :
        /\ Requested(calls[i], EpisodesUrl(1))
        /\ tvdb.dvdorder
        /\ DOMAIN tvdb.shows.dict[1].seasons = {IntKey(1), IntKey(2)}
        /\ DOMAIN tvdb.shows.dict[1].seasons[IntKey(2)].episodes = {IntKey(1), IntKey(2)}

C25_WitnessAired ==
    \E i \in ReturnedCalls :
        /\ Requested(calls[i], EpisodesUrl(1))
        /\ ~tvdb.dvdorder
        /\ DOMAIN tvdb.shows.dict[1].seasons = {IntKey(1)}
        /\ Cardinality(DOMAIN tvdb.shows.dict[1].seasons[IntKey(1)].episodes) = 3

(* the login returned: authorize set the header and the flag *)
Completed(request) ==
    request.method = "POST" /\ request.error # <<"Not", " ", "Authorized">>

(* C27: every GET that the cache does not answer comes after a login that  *)
(* completed on the instance and carries the Authorization header of that  *)
(* login, and no login is made after a login that completed.               *)
C27_LoginBeforeGet ==
    /\ \A i \in 1..Len(net.log) :
          net.log[i].method = "GET" /\ ~net.log[i].cached
          => \E j \in 1..(i - 1) :
                /\ Completed(net.log[j])
                /\ net.log[i].authorization =
                      <<"Bearer", " ">> \o str_value(net.log[j].token)
    /\ \A j, k \in 1..Len(net.log) :
          j < k /\ net.log[k].method = "POST" => ~Completed(net.log[j])

(* a GET from the cache without a login, then one login and GETs with its  *)
(* token in two lookups                                                    *)
C27_Witness ==
    /\ Len(calls) = 2
    /\ Cardinality({ i \in 1..Len(net.log) : net.log[i].method = "POST" }) = 1
    /\ \E i \in 1..Len(net.log) : net.log[i].cached /\ net.log[i].authorization = None
    /\ \E i \in 1..Len(net.log) :
          /\ i > calls[2].requests
          /\ net.log[i].method = "GET" /\ ~net.log[i].cached
          /\ net.log[i].authorization = <<"Bearer", " ", "token">>

(* the Show has the data of the series and every episode of the server *)
FullyLoaded(S, sid) ==
    /\ sid = 1
    /\ DOMAIN S.data = {StrKey(T("seriesName")), StrKey(T("language"))}
    /\ EpisodesStored(S, tvdb.dvdorder)

(* C29: a lookup that returns, also one after a load that failed, returns  *)
(* a fully loaded Show.                                                    *)
C29_NoPartialShow ==
    \A i \in ReturnedCalls :
        FullyLoaded(tvdb.shows.dict[SidOf([tvdb |-> tvdb], calls[i].arg)],
                    SidOf([tvdb |-> tvdb], calls[i].arg))

====
